---- MODULE Spec2Model ----
(***************************************************************************)
(* EdGrantAI: the canonicalization and matching engine.                    *)
(*                                                                         *)
(*   pipeline/matching_engine.py   _score_and_reasons, recommend           *)
(*   pipeline/canonical_mapper.py  map_phrases_to_canonical                *)
(*   pipeline/embedding_matcher.py cosine_similarity                       *)
(*   pipeline/config.py            Settings                                *)
(*                                                                         *)
(* Numbers.  Python floats are modelled by exact fixed-point integers:     *)
(*   - weights, the red-flag penalty, the similarity floor and the         *)
(*     similarities used by the scorer are whole hundredths;               *)
(*   - a match score is kept in units of 1/(10^6 * OverlapDen) before      *)
(*     rounding and in thousandths after round(score, 3);                  *)
(*   - a phrase/tag similarity in the mapper is the exact rational         *)
(*     dot/(norm*norm); thresholds and confidences are in units of 10^-4.  *)
(* Three specifications share the module: Spec (one org/grant pair         *)
(* scored), SpecRec (recommend over a grants directory) and SpecMap        *)
(* (map_phrases_to_canonical for one taxonomy).                            *)
(***************************************************************************)
EXTENDS Integers, Sequences, FiniteSets, TLC

VARIABLES
    settings,     \* the Settings singleton: the fields the engine reads
    embFiles,     \* data/taxonomy/embeddings/<name>_embeddings.json per taxonomy
    org,          \* the org profile (JSON object)
    grant,        \* the grant profile scored by _score_and_reasons
    match,        \* the last (score, bucket, reasons) returned, or NoResult
    grantsDir,    \* recommend: the *_profile.json files, in sorted name order
    recOut,       \* recommend: the last return value, or NoResult
    mapEnv,       \* mapper: taxonomy name, tag list file, synonym map
    mapCall,      \* mapper: the arguments of the last call, or NoResult
    mapOut,       \* mapper: what the last call produced, or NoResult
    batch,        \* builders: the state of a run with --all, or NoResult
    merge,        \* merge_auto_synonyms: the synonym files of a taxonomy
    build,        \* build_org_profile: the text, the mapped tags and the profile
    synOut        \* build_synonyms: the tag list and the map written, or NoResult

vars == <<settings, embFiles, org, grant, match, grantsDir, recOut,
          mapEnv, mapCall, mapOut, batch, merge, build, synOut>>

\* ------------------------------------------------------------------------
\* Generic helpers
\* ------------------------------------------------------------------------
Range(s) == {s[i] : i \in DOMAIN s}

Max2(a, b) == IF a >= b THEN a ELSE b

RECURSIVE SumOver(_, _)
SumOver(f, S) ==
    IF S = {} THEN 0
    ELSE LET x == CHOOSE y \in S : TRUE IN f[x] + SumOver(f, S \ {x})

\* dict.get(key, default)
DictGet(d, key, default) == IF key \in DOMAIN d THEN d[key] ELSE default

RECURSIVE Gcd(_, _)
Gcd(a, b) == IF b = 0 THEN a ELSE Gcd(b, a % b)

RECURSIVE LcmUpTo(_)
LcmUpTo(n) == IF n <= 1 THEN 1
              ELSE LET l == LcmUpTo(n - 1) IN (l * n) \div Gcd(l, n)

\* ------------------------------------------------------------------------
\* Vocabulary of the scorer
\* ------------------------------------------------------------------------
\* matching_engine.TAX_KEYS
TAX_KEYS == <<"mission_tags", "population_tags", "org_type_tags",
              "geography_tags", "red_flag_tags">>

\* The tags that occur in the profiles of the model, per profile key.
TagUniverse ==
    [ mission_tags    |-> {"STEM education", "informal learning"},
      population_tags |-> {"rural students"},
      org_type_tags   |-> {"nonprofit_501c3", "higher_education_institution"},
      geography_tags  |-> {"United States", "us_national"},
      red_flag_tags   |-> {"higher_education_only", "nonprofits_only",
                           "limited_submission"} ]

\* The largest number of tags an org can carry under one key: overlap ratios
\* are fractions with a denominator up to this.
MaxTagsPerKey ==
    LET n == [k \in DOMAIN TagUniverse |-> Cardinality(TagUniverse[k])]
    IN  CHOOSE m \in {n[k] : k \in DOMAIN n} : \A k \in DOMAIN n : n[k] <= m

\* An overlap value 1.0 is OverlapOne units; a score 1.0 is ScoreOne units.
OverlapDen == LcmUpTo(MaxTagsPerKey)
OverlapOne == 100 * OverlapDen
ScoreOne   == 100 * 100 * OverlapOne

\* ------------------------------------------------------------------------
\* pipeline/embedding_matcher.py
\* ------------------------------------------------------------------------
\* Embedding vectors have two integer components and an integer norm.
VecDot(v, w) == v[1] * w[1] + v[2] * w[2]

\* np.linalg.norm
VecNorm(v) == CHOOSE r \in 0..(Max2(v[1], -v[1]) + Max2(v[2], -v[2])) : r * r = VecDot(v, v)

\* Mutant: the dot product is not divided by the norms.
cosine_similarity_unnormalized(vec1, vec2) == [num |-> VecDot(vec1, vec2), den |-> 1]

\* cosine_similarity: the exact rational num/den (0 when a norm is 0).
cosine_similarity(vec1, vec2) ==
    LET denom == VecNorm(vec1) * VecNorm(vec2)
    IN  IF denom = 0 THEN [num |-> 0, den |-> 1]
        ELSE [num |-> VecDot(vec1, vec2), den |-> denom]

\* An embeddings file <name>_embeddings.json: absent, present but not JSON,
\* or a JSON object tag -> vector (a vector may be the empty list).
MissingFile   == [exists |-> FALSE, json |-> FALSE, table |-> <<>>]
MalformedFile == [exists |-> TRUE, json |-> FALSE, table |-> <<>>]
TableFile(t)  == [exists |-> TRUE, json |-> TRUE, table |-> t]

\* load_taxonomy_embeddings: {} for a file that does not exist; json.load
\* raises on a file that is not JSON.
load_taxonomy_embeddings(file) ==
    IF ~file.exists THEN [raises |-> FALSE, emb |-> <<>>]
    ELSE IF ~file.json THEN [raises |-> TRUE, emb |-> <<>>]
    ELSE [raises |-> FALSE, emb |-> file.table]

\* dict.get on a tag -> vector table; None is the empty tuple here, which
\* like None and [] is falsy in Python.
EmbGet(emb, tag) == IF tag \in DOMAIN emb THEN emb[tag] ELSE <<>>

\* ------------------------------------------------------------------------
\* pipeline/matching_engine.py: the scorer
\* ------------------------------------------------------------------------
\* A profile is a JSON object; canonical_tags maps a key to a list of
\* assignments, each a dict with a "tag".
RECURSIVE Items(_)
Items(tags) ==
    IF tags = {} THEN <<>>
    ELSE LET t == CHOOSE x \in tags : TRUE
         IN  <<[tag |-> t]>> \o Items(tags \ {t})

Profile(tagsets) ==
    [canonical_tags |-> [k \in DOMAIN tagsets |-> Items(tagsets[k])]]

\* Mutant: a missing canonical_tags or key reads as a placeholder tag.
_tag_set_placeholder(profile, key) ==
    LET ct    == IF "canonical_tags" \in DOMAIN profile
                 THEN profile.canonical_tags ELSE <<>>
        items == IF key \in DOMAIN ct THEN ct[key] ELSE <<[tag |-> "unknown"]>>
    IN  {items[i].tag : i \in {j \in DOMAIN items : items[j].tag # ""}}

\* _tag_set: the truthy tags of the dict items under the key; a missing
\* canonical_tags or key reads as the empty list.
_tag_set(profile, key) ==
    LET ct    == IF "canonical_tags" \in DOMAIN profile
                 THEN profile.canonical_tags ELSE <<>>
        items == IF key \in DOMAIN ct THEN ct[key] ELSE <<>>
    IN  {items[i].tag : i \in {j \in DOMAIN items : items[j].tag # ""}}

\* _overlap_ratio, in OverlapOne units.
_overlap_ratio(org_tags, grant_tags) ==
    IF org_tags = {} THEN 0
    ELSE (Cardinality(org_tags \cap grant_tags) * OverlapOne)
             \div Max2(1, Cardinality(org_tags))

\* A similarity of the scorer's tables in hundredths (exact for the vectors
\* of the model, whose cosines are whole hundredths).
Hundredths(r) == (r.num * 100) \div r.den

\* The inner loop of _semantic_overlap: the best similarity of org tag ot to
\* a grant tag that has a vector, starting from best = 0.0.
BestSim(emb, ot, grant_tags) ==
    LET sims == {Hundredths(cosine_similarity(EmbGet(emb, ot), EmbGet(emb, gt))) :
                    gt \in {g \in grant_tags : EmbGet(emb, g) # <<>>}}
    IN  IF \E s \in sims : s > 0
        THEN CHOOSE s \in sims : \A u \in sims : u <= s
        ELSE 0

\* Mutant: the similarity floor is not applied.
_semantic_overlap_no_floor(taxonomy_name, org_tags, grant_tags) ==
    IF org_tags = {} THEN 0
    ELSE
      LET loaded == load_taxonomy_embeddings(embFiles[taxonomy_name])
          emb    == loaded.emb
          scores == [ot \in org_tags |->
                       IF EmbGet(emb, ot) = <<>>
                       THEN (IF ot \in grant_tags THEN 100 ELSE 0)
                       ELSE BestSim(emb, ot, grant_tags)]
      IN  IF loaded.raises THEN _overlap_ratio(org_tags, grant_tags)
          ELSE (SumOver(scores, org_tags) * OverlapDen) \div Cardinality(org_tags)

\* _semantic_overlap, in OverlapOne units.
_semantic_overlap(taxonomy_name, org_tags, grant_tags) ==
    IF org_tags = {} THEN 0
    ELSE
      LET loaded == load_taxonomy_embeddings(embFiles[taxonomy_name])
          emb    == loaded.emb
          threshold == settings.MATCH_TAX_SIM_THRESHOLD
          scores == [ot \in org_tags |->
                       IF EmbGet(emb, ot) = <<>>
                       THEN (IF ot \in grant_tags THEN 100 ELSE 0)
                       ELSE LET best == BestSim(emb, ot, grant_tags)
                            IN  IF best >= threshold THEN best ELSE 0]
      IN  IF loaded.raises THEN _overlap_ratio(org_tags, grant_tags)
          ELSE (SumOver(scores, org_tags) * OverlapDen) \div Cardinality(org_tags)

\* Mutant: geography scored by the exact overlap ratio alone.
_geography_overlap_exact(org_tags, grant_tags) ==
    _overlap_ratio(org_tags, grant_tags)

\* _geography_overlap, in OverlapOne units.
_geography_overlap(org_tags, grant_tags) ==
    IF org_tags = {} THEN 0
    ELSE IF "us_national" \in grant_tags
         THEN (IF org_tags # {} THEN OverlapOne ELSE 0)
         ELSE _overlap_ratio(org_tags, grant_tags)

\* Mutant: a block needs every red flag of the grant to have a failing rule.
_hard_block_all(org_type_tags, grant_red_flags) ==
    LET rules == settings.MATCH_HARD_BLOCKS
    IN  /\ grant_red_flags # {}
        /\ \A rf \in grant_red_flags :
              /\ rf \in DOMAIN rules
              /\ rules[rf] # {}
              /\ org_type_tags \cap rules[rf] = {}

\* _hard_block: some red flag of the grant has a rule with a non-empty
\* any_of list that the org's types do not meet.
_hard_block(org_type_tags, grant_red_flags) ==
    LET rules == settings.MATCH_HARD_BLOCKS
    IN  \E rf \in grant_red_flags :
            /\ rf \in DOMAIN rules
            /\ rules[rf] # {}
            /\ org_type_tags \cap rules[rf] = {}

\* round(score, 3) of a score in ScoreOne units, in thousandths.  Python
\* rounds the binary float: on an exact decimal tie the result depends on
\* the float's representation error, so both neighbours are possible.
round3(x) ==
    LET unit == ScoreOne \div 1000
        q    == x \div unit
        r    == x % unit
    IN  IF 2 * r < unit THEN {q}
        ELSE IF 2 * r > unit THEN {q + 1}
        ELSE {q, q + 1}

\* The bucket of a rounded score (thousandths); thresholds are hundredths.
Bucket(score) ==
    IF score >= settings.MATCH_APPLY_THRESHOLD * 10 THEN "Apply"
    ELSE IF score >= settings.MATCH_MAYBE_THRESHOLD * 10 THEN "Maybe"
    ELSE "Avoid"

\* A reason line f"<kind>: {sorted(tags)}".
Reason(kind, tags) == [kind |-> kind, tags |-> tags]

ReasonIf(cond, kind, tags) == IF cond THEN <<Reason(kind, tags)>> ELSE <<>>

\* Mutant: the geography line follows the superset rule of the score.
Reasons_geography_scored(o, g) ==
    ReasonIf(o.mission_tags # {} /\ o.mission_tags \cap g.mission_tags # {},
             "Mission overlap", o.mission_tags \cap g.mission_tags)
    \o ReasonIf(o.population_tags # {}
                  /\ o.population_tags \cap g.population_tags # {},
                "Population overlap", o.population_tags \cap g.population_tags)
    \o ReasonIf(o.org_type_tags \cap g.org_type_tags # {},
                "Org type ok", o.org_type_tags \cap g.org_type_tags)
    \o ReasonIf(_geography_overlap(o.geography_tags, g.geography_tags) > 0,
                "Geography overlap", g.geography_tags)
    \o ReasonIf(g.red_flag_tags # {}, "Red flags", g.red_flag_tags)

\* The reasons list of a pair that is not hard-blocked.
Reasons(o, g) ==
    ReasonIf(o.mission_tags # {} /\ o.mission_tags \cap g.mission_tags # {},
             "Mission overlap", o.mission_tags \cap g.mission_tags)
    \o ReasonIf(o.population_tags # {}
                  /\ o.population_tags \cap g.population_tags # {},
                "Population overlap", o.population_tags \cap g.population_tags)
    \o ReasonIf(o.org_type_tags \cap g.org_type_tags # {},
                "Org type ok", o.org_type_tags \cap g.org_type_tags)
    \o ReasonIf(o.geography_tags \cap g.geography_tags # {},
                "Geography overlap", o.geography_tags \cap g.geography_tags)
    \o ReasonIf(g.red_flag_tags # {}, "Red flags", g.red_flag_tags)

\* Mutant: the red-flag penalty applied to every pair.
RawScore_always_penalised(o, g) ==
    LET w == settings.MATCH_WEIGHTS
    IN  ( _semantic_overlap("mission_tags", o.mission_tags, g.mission_tags)
              * w.mission_tags
          + _semantic_overlap("population_tags", o.population_tags,
                              g.population_tags) * w.population_tags
          + _geography_overlap(o.geography_tags, g.geography_tags)
              * w.geography_tags
          + (IF o.org_type_tags \cap g.org_type_tags # {}
             THEN OverlapOne ELSE 0) * w.org_type_tags )
        * settings.MATCH_RED_FLAG_PENALTY

\* Mutant: the penalty applied to the mission term and again to the sum.
RawScore_penalised_twice(o, g) ==
    LET w       == settings.MATCH_WEIGHTS
        p       == IF g.red_flag_tags # {} THEN settings.MATCH_RED_FLAG_PENALTY
                   ELSE 100
        mission == (_semantic_overlap("mission_tags", o.mission_tags,
                                      g.mission_tags) * w.mission_tags * p) \div 100
        pop     == _semantic_overlap("population_tags", o.population_tags,
                                     g.population_tags) * w.population_tags
        geo     == _geography_overlap(o.geography_tags, g.geography_tags)
                       * w.geography_tags
        orgtype == (IF o.org_type_tags \cap g.org_type_tags # {}
                    THEN OverlapOne ELSE 0) * w.org_type_tags
    IN  (mission + pop + geo + orgtype) * p

\* The weighted sum with the red-flag penalty, in ScoreOne units, before
\* rounding.
RawScore(o, g) ==
    LET w       == settings.MATCH_WEIGHTS
        mission == _semantic_overlap("mission_tags", o.mission_tags,
                                     g.mission_tags) * w.mission_tags
        pop     == _semantic_overlap("population_tags", o.population_tags,
                                     g.population_tags) * w.population_tags
        geo     == _geography_overlap(o.geography_tags, g.geography_tags)
                       * w.geography_tags
        orgtype == (IF o.org_type_tags \cap g.org_type_tags # {}
                    THEN OverlapOne ELSE 0) * w.org_type_tags
        score   == mission + pop + geo + orgtype
    IN  IF g.red_flag_tags # {} THEN score * settings.MATCH_RED_FLAG_PENALTY
        ELSE score * 100

\* Mutant: the bucket taken from the score before it is rounded.
_score_and_reasons_raw_bucket(org_profile, grant_profile) ==
    LET o == [k \in Range(TAX_KEYS) |-> _tag_set(org_profile, k)]
        g == [k \in Range(TAX_KEYS) |-> _tag_set(grant_profile, k)]
        raw == RawScore(o, g)
        unit == ScoreOne \div 1000
    IN  IF _hard_block(o.org_type_tags, g.red_flag_tags)
        THEN {[score |-> 0, bucket |-> "Avoid",
               reasons |-> <<Reason("Hard block due to red flags", g.red_flag_tags)>>]}
        ELSE {[score |-> sc,
               bucket |-> IF raw >= settings.MATCH_APPLY_THRESHOLD * 10 * unit
                          THEN "Apply"
                          ELSE IF raw >= settings.MATCH_MAYBE_THRESHOLD * 10 * unit
                               THEN "Maybe" ELSE "Avoid",
               reasons |-> Reasons(o, g)] : sc \in round3(raw)}

\* _score_and_reasons: the set of (score, bucket, reasons) it can return.
_score_and_reasons(org_profile, grant_profile) ==
    LET o == [k \in Range(TAX_KEYS) |-> _tag_set(org_profile, k)]
        g == [k \in Range(TAX_KEYS) |-> _tag_set(grant_profile, k)]
        red_flags_set == g.red_flag_tags
    IN  IF _hard_block(o.org_type_tags, red_flags_set)
        THEN {[score |-> 0, bucket |-> "Avoid",
               reasons |-> <<Reason("Hard block due to red flags", red_flags_set)>>]}
        ELSE {[score |-> sc, bucket |-> Bucket(sc), reasons |-> Reasons(o, g)] :
                 sc \in round3(RawScore(o, g))}

\* ------------------------------------------------------------------------
\* pipeline/config.py: Settings
\* ------------------------------------------------------------------------
\* The defaults of Settings.__init__ (weights, thresholds, penalty and floor
\* in hundredths; the mapper's similarity thresholds in units of 10^-4).
DefaultSettings ==
    [ MATCH_WEIGHTS |->
        [mission_tags |-> 50, population_tags |-> 40,
         geography_tags |-> 10, org_type_tags |-> 40],
      MATCH_APPLY_THRESHOLD   |-> 60,
      MATCH_MAYBE_THRESHOLD   |-> 40,
      MATCH_RED_FLAG_PENALTY  |-> 85,
      MATCH_TAX_SIM_THRESHOLD |-> 50,
      MATCH_HARD_BLOCKS |->
        [higher_education_only |->
            {"higher_education_institution", "four_year_university",
             "community_college"},
         universities_only |->
            {"higher_education_institution", "four_year_university",
             "community_college"},
         schools_only |->
            {"public_school_district", "public_school_single_site",
             "charter_school_single_site", "charter_school_network",
             "independent_private_school"},
         government_entities_only |->
            {"government_agency_local", "government_agency_state",
             "education_service_agency"},
         nonprofits_only |->
            {"nonprofit_501c3", "community_based_organization"}],
      TAXONOMIES |-> <<"mission_tags", "population_tags", "org_types",
                       "geography_tags", "red_flag_tags">>,
      THRESHOLDS |->
        [mission |-> 6000, population |-> 6500, org_type |-> 7500,
         geography |-> 8500, red_flags |-> 8000, default |-> 7000],
      THRESHOLDS_LOOSE |->
        [mission |-> 5500, population |-> 6000, org_type |-> 7000,
         geography |-> 8500, red_flags |-> 8000, default |-> 6500],
      THRESHOLD_KEY_BY_TAXONOMY |->
        [mission_tags |-> "mission", population_tags |-> "population",
         org_types |-> "org_type", geography_tags |-> "geography",
         red_flag_tags |-> "red_flags"],
      TOP_K |-> 5,
      TOP_K_BY_TAXONOMY |->
        [mission_tags |-> 8, population_tags |-> 7, org_types |-> 5,
         geography_tags |-> 5, red_flag_tags |-> 5],
      TOP1_TAXONOMIES |-> {} ]

\* Settings read from the environment: MATCH_W_*, MATCH_APPLY_THRESHOLD and
\* MATCH_MAYBE_THRESHOLD override the defaults; nothing relates the two
\* thresholds to each other.
EnvWeights ==
    { DefaultSettings.MATCH_WEIGHTS,
      [mission_tags |-> 32, population_tags |-> 25,
       geography_tags |-> 5, org_type_tags |-> 30] }

EnvBucketThresholds ==
    { [apply |-> 60, maybe |-> 40], [apply |-> 50, maybe |-> 60] }

ScorerSettings ==
    { [DefaultSettings EXCEPT !.MATCH_WEIGHTS = w,
                              !.MATCH_APPLY_THRESHOLD = t.apply,
                              !.MATCH_MAYBE_THRESHOLD = t.maybe] :
        w \in EnvWeights, t \in EnvBucketThresholds }

\* ------------------------------------------------------------------------
\* The inputs of the scorer
\* ------------------------------------------------------------------------
MaxOrgTags   == 4
MaxGrantTags == 3

TagCount(ts) == SumOver([k \in DOMAIN ts |-> Cardinality(ts[k])], DOMAIN ts)

\* The org's red flags are read by _score_and_reasons and never used.
OrgTagSets ==
    { ts \in [mission_tags    : SUBSET TagUniverse.mission_tags,
              population_tags : SUBSET TagUniverse.population_tags,
              org_type_tags   : SUBSET TagUniverse.org_type_tags,
              geography_tags  : SUBSET TagUniverse.geography_tags,
              red_flag_tags   : {{}}] : TagCount(ts) <= MaxOrgTags }

GrantTagSets ==
    { ts \in [mission_tags    : SUBSET TagUniverse.mission_tags,
              population_tags : SUBSET TagUniverse.population_tags,
              org_type_tags   : SUBSET TagUniverse.org_type_tags,
              geography_tags  : SUBSET TagUniverse.geography_tags,
              red_flag_tags   : SUBSET TagUniverse.red_flag_tags] :
        TagCount(ts) <= MaxGrantTags }

\* The embeddings files the scorer reads.  Vectors come from the embedding
\* provider and are never zero; a tag may lack a vector.
ScorerTables ==
    { [mission_tags |-> m, population_tags |-> TableFile(<<>>)] :
        m \in { MissingFile, MalformedFile,
                TableFile([t \in {"STEM education", "informal learning"} |->
                            IF t = "STEM education" THEN <<4, 3>> ELSE <<1, 0>>]),
                TableFile([t \in {"STEM education", "informal learning"} |->
                            IF t = "STEM education" THEN <<0, 1>> ELSE <<1, 0>>]),
                TableFile([t \in {"informal learning"} |-> <<3, 4>>]) } }

NoResult == [done |-> FALSE]

\* The org and the grant of the worked example: a rural STEM nonprofit and a
\* national STEM grant for nonprofits.
ScenarioOrgTags ==
    [mission_tags |-> {"STEM education"}, population_tags |-> {"rural students"},
     org_type_tags |-> {"nonprofit_501c3"}, geography_tags |-> {"United States"},
     red_flag_tags |-> {}]

ScenarioGrantTags ==
    [mission_tags |-> {"STEM education"}, population_tags |-> {},
     org_type_tags |-> {"nonprofit_501c3"}, geography_tags |-> {"us_national"},
     red_flag_tags |-> {}]

\* ------------------------------------------------------------------------
\* Spec: one org/grant pair is scored
\* ------------------------------------------------------------------------
Init ==
    /\ settings \in ScorerSettings
    /\ embFiles \in ScorerTables
    /\ org \in {Profile(ts) : ts \in OrgTagSets}
    /\ grant \in {Profile(ts) : ts \in GrantTagSets}
    /\ match = NoResult
    /\ grantsDir = <<>>
    /\ recOut = NoResult
    /\ mapEnv = NoResult
    /\ mapCall = NoResult
    /\ mapOut = NoResult
    /\ batch = NoResult
    /\ merge = NoResult
    /\ build = NoResult
    /\ synOut = NoResult

\* scoreMatch: _score_and_reasons(org, grant).
ScoreMatch ==
    /\ match = NoResult
    /\ \E r \in _score_and_reasons(org, grant) :
          match' = [done |-> TRUE, score |-> r.score, bucket |-> r.bucket,
                    reasons |-> r.reasons]
    /\ UNCHANGED <<settings, embFiles, org, grant, grantsDir, recOut,
                   mapEnv, mapCall, mapOut, batch, merge,
                   build, synOut>>

Next == ScoreMatch

Spec == Init /\ [][Next]_vars

\* ------------------------------------------------------------------------
\* pipeline/matching_engine.py: recommend
\* ------------------------------------------------------------------------
MaxGrants == 3

\* A *_profile.json file of the grants directory: JSON that loads to a
\* profile object, or a file json.load raises on.
GrantFile(ts, dl, fd) ==
    [json |-> TRUE,
     data |-> [canonical_tags |-> Profile(ts).canonical_tags,
               deadline |-> dl, funding |-> fd]]

BrokenGrantFile == [json |-> FALSE, data |-> <<>>]

NoTags == [k \in Range(TAX_KEYS) |-> {}]

RecGrantFiles ==
    { GrantFile(ScenarioGrantTags,
                [dates |-> <<"2025-01-08">>, status |-> "date"],
                [estimated_min |-> 5000, estimated_max |-> 50000]),
      GrantFile([NoTags EXCEPT !.mission_tags = {"STEM education"},
                               !.red_flag_tags = {"limited_submission"}],
                [status |-> "rolling"], <<>>),
      GrantFile([NoTags EXCEPT !.mission_tags = {"STEM education"},
                               !.org_type_tags = {"nonprofit_501c3"},
                               !.red_flag_tags = {"higher_education_only"}],
                <<>>, <<>>),
      GrantFile([NoTags EXCEPT !.org_type_tags = {"nonprofit_501c3"},
                               !.geography_tags = {"United States"}],
                <<>>, <<>>),
      BrokenGrantFile }

\* The body of the loop of recommend for the file of rank i: the record
\* appended for it, given the result r the scorer returned.
ScoredRecord(i, g, r) ==
    LET dl == DictGet(g, "deadline", <<>>)
        fd == DictGet(g, "funding", <<>>)
    IN  [grant_profile |-> i,
         score |-> r.score,
         bucket |-> r.bucket,
         deadlines |-> DictGet(dl, "dates", <<>>),
         deadline_status |-> DictGet(dl, "status", "None"),
         funding_min |-> DictGet(fd, "estimated_min", "None"),
         funding_max |-> DictGet(fd, "estimated_max", "None"),
         reasons |-> r.reasons]

ErrorRecord(i) == [grant_profile |-> i, error |-> "json"]

\* The sort key of recs.sort: x.get("score", 0.0).
SortKey(rec) == IF "score" \in DOMAIN rec THEN rec.score ELSE 0

\* Mutant: a descending sort that puts a record before the equal ones
\* already placed (the order a reversed ascending sort gives).
RECURSIVE InsertDesc_unstable(_, _)
InsertDesc_unstable(sorted, rec) ==
    IF sorted = <<>> THEN <<rec>>
    ELSE IF SortKey(rec) >= SortKey(Head(sorted))
         THEN <<rec>> \o sorted
         ELSE <<Head(sorted)>> \o InsertDesc_unstable(Tail(sorted), rec)

\* list.sort(key=..., reverse=True) is a stable sort: a record goes after
\* every record already placed whose key is not smaller.
RECURSIVE InsertDesc(_, _)
InsertDesc(sorted, rec) ==
    IF sorted = <<>> THEN <<rec>>
    ELSE IF SortKey(rec) > SortKey(Head(sorted))
         THEN <<rec>> \o sorted
         ELSE <<Head(sorted)>> \o InsertDesc(Tail(sorted), rec)

RECURSIVE SortDesc(_)
SortDesc(recs) ==
    IF recs = <<>> THEN <<>>
    ELSE InsertDesc(SortDesc(SubSeq(recs, 1, Len(recs) - 1)), recs[Len(recs)])

\* Mutant: top is not applied when it would cut the list.
Slice_all(recs, top) == recs

\* recs[:top] if top else recs
Slice(recs, top) ==
    IF top = 0 THEN recs
    ELSE IF top > 0 THEN SubSeq(recs, 1, IF top < Len(recs) THEN top ELSE Len(recs))
    ELSE SubSeq(recs, 1, Max2(0, Len(recs) + top))

\* The records of the loop, given the scorer's result for every file that
\* loads.
Recs(results) ==
    [i \in DOMAIN grantsDir |->
        IF grantsDir[i].json
        THEN ScoredRecord(i, grantsDir[i].data, results[i])
        ELSE ErrorRecord(i)]

\* ------------------------------------------------------------------------
\* SpecRec: recommend over a grants directory
\* ------------------------------------------------------------------------
RECURSIVE SeqsUpTo(_, _)
SeqsUpTo(S, n) ==
    IF n = 0 THEN {<<>>}
    ELSE LET shorter == SeqsUpTo(S, n - 1)
         IN  shorter \cup {Append(q, x) : q \in shorter, x \in S}

InitRec ==
    /\ settings = DefaultSettings
    /\ embFiles \in ScorerTables
    /\ org \in {Profile(ScenarioOrgTags), Profile(NoTags)}
    /\ grant = Profile(NoTags)
    /\ match = NoResult
    /\ grantsDir \in SeqsUpTo(RecGrantFiles, MaxGrants)
    /\ recOut = NoResult
    /\ mapEnv = NoResult
    /\ mapCall = NoResult
    /\ mapOut = NoResult
    /\ batch = NoResult
    /\ merge = NoResult
    /\ build = NoResult
    /\ synOut = NoResult

\* recommend(org_profile_path, grants_dir, top)
Recommend(top) ==
    /\ recOut = NoResult
    /\ \E results \in [DOMAIN grantsDir ->
                         UNION {_score_and_reasons(org, f.data) :
                                  f \in {x \in Range(grantsDir) : x.json}}
                         \cup {NoResult}] :
          /\ \A i \in DOMAIN grantsDir :
                IF grantsDir[i].json
                THEN results[i] \in _score_and_reasons(org, grantsDir[i].data)
                ELSE results[i] = NoResult
          /\ recOut' = [done |-> TRUE, top |-> top, recs |-> Recs(results),
                        recommendations |-> Slice(SortDesc(Recs(results)), top)]
    /\ UNCHANGED <<settings, embFiles, org, grant, match, grantsDir,
                   mapEnv, mapCall, mapOut, batch, merge,
                   build, synOut>>

NextRec == \E top \in (-1)..(MaxGrants + 1) : Recommend(top)

SpecRec == InitRec /\ [][NextRec]_vars

\* ------------------------------------------------------------------------
\* SpecKeys: a pair of profiles that lack keys is scored
\* ------------------------------------------------------------------------
MaxKeyTags == 2

\* A profile file without canonical_tags.
BareProfile == [profile_id |-> "profile"]

\* The profile of the tag sets without the keys of `missing`.
ProfileWithout(tagsets, missing) ==
    [canonical_tags |-> [k \in DOMAIN tagsets \ missing |-> Items(tagsets[k])]]

\* The profiles of the tag sets: every key present; one key that has no
\* tags left out; every key that has no tags left out; no canonical_tags
\* when no key has tags.
ProfilesOf(tagsets) ==
    LET empty == {k \in DOMAIN tagsets : tagsets[k] = {}}
    IN  {ProfileWithout(tagsets, {})}
        \cup {ProfileWithout(tagsets, {k}) : k \in empty}
        \cup {ProfileWithout(tagsets, empty)}
        \cup (IF empty = DOMAIN tagsets THEN {BareProfile} ELSE {})

InitKeys ==
    /\ settings = DefaultSettings
    /\ embFiles \in { [mission_tags |-> m, population_tags |-> TableFile(<<>>)] :
                        m \in { MissingFile,
                                TableFile([t \in {"STEM education", "informal learning"} |->
                                            IF t = "STEM education" THEN <<4, 3>>
                                            ELSE <<1, 0>>]) } }
    /\ org \in UNION {ProfilesOf(ts) :
                        ts \in {x \in OrgTagSets : TagCount(x) <= MaxKeyTags}}
    /\ grant \in UNION {ProfilesOf(ts) :
                          ts \in {x \in GrantTagSets : TagCount(x) <= MaxKeyTags}}
    /\ match = NoResult
    /\ grantsDir = <<>>
    /\ recOut = NoResult
    /\ mapEnv = NoResult
    /\ mapCall = NoResult
    /\ mapOut = NoResult
    /\ batch = NoResult
    /\ merge = NoResult
    /\ build = NoResult
    /\ synOut = NoResult

SpecKeys == InitKeys /\ [][Next]_vars

\* ------------------------------------------------------------------------
\* SpecSem: pairs with mission and population tags are scored against
\* tables with high, low, zero and negative similarities
\* ------------------------------------------------------------------------
\* MATCH_TAX_SIM_THRESHOLD: the default and a stricter floor.
SimFloors == {50, 90}

\* mission_tags_embeddings.json: missing, not JSON, a vector for both tags
\* (cosine 0.8, 0.28, 0 or -0.8 between them), or a vector for one tag.
MissionTables ==
    { MissingFile, MalformedFile,
      TableFile([t \in {"informal learning"} |-> <<3, 4>>]) }
    \cup { TableFile([t \in {"STEM education", "informal learning"} |->
                         IF t = "STEM education" THEN v ELSE <<1, 0>>]) :
             v \in { <<4, 3>>, <<7, 24>>, <<0, 1>>, <<-4, 3>> } }

PopulationTables ==
    { MissingFile, TableFile(<<>>),
      TableFile([t \in {"rural students"} |-> <<3, 4>>]) }

InitSem ==
    /\ settings \in {[DefaultSettings EXCEPT !.MATCH_TAX_SIM_THRESHOLD = f] :
                        f \in SimFloors}
    /\ embFiles \in [mission_tags : MissionTables,
                     population_tags : PopulationTables]
    /\ org \in {Profile([NoTags EXCEPT !.mission_tags = m, !.population_tags = p]) :
                  m \in SUBSET TagUniverse.mission_tags,
                  p \in SUBSET TagUniverse.population_tags}
    /\ grant \in {Profile([NoTags EXCEPT !.mission_tags = m, !.population_tags = p]) :
                    m \in SUBSET TagUniverse.mission_tags,
                    p \in SUBSET TagUniverse.population_tags}
    /\ match = NoResult
    /\ grantsDir = <<>>
    /\ recOut = NoResult
    /\ mapEnv = NoResult
    /\ mapCall = NoResult
    /\ mapOut = NoResult
    /\ batch = NoResult
    /\ merge = NoResult
    /\ build = NoResult
    /\ synOut = NoResult

SpecSem == InitSem /\ [][Next]_vars

\* ------------------------------------------------------------------------
\* Strings of the mapper
\* ------------------------------------------------------------------------
\* A string is a sequence of atoms: an atom is a run of letters and digits
\* of one case ("STEM", "stem", "12") or a single other character (" ", "-",
\* "_").  The lower-case letter/digit atoms are prefix-free, so two
\* sequences of them spell the same string only if they are equal.
LowerAtom(a) ==
    CASE a = "STEM"    -> "stem"
      [] a = "English" -> "english"
      [] a = "Public"  -> "public"
      [] a = "School"  -> "school"
      [] a = "District" -> "district"
      [] a = "K"       -> "k"
      [] a = "United"  -> "united"
      [] a = "States"  -> "states"
      [] a = "Higher"  -> "higher"
      [] a = "Robotics" -> "robotics"
      [] a = "Nationwide" -> "nationwide"
      [] OTHER         -> a

\* str.lower()
Lower(str) == [i \in DOMAIN str |-> LowerAtom(str[i])]

\* The atoms that are not letters or digits.  "_" is a word character for
\* \b and is not in [a-z0-9].
EnDash == "(en dash)"
Punctuation == {" ", "-", "_", EnDash}
IsWordAtom(a) == a \notin {" ", "-", EnDash}
InAZ09(a) == a \notin Punctuation

\* _normalize_text: lower-case, then drop every character outside [a-z0-9].
_normalize_text(str) == SelectSeq(Lower(str), InAZ09)


\* re.search(r"\b(alt1|alt2|...)\b", s, re.I) for alternatives that begin and
\* end with a word character: some alternative occurs in the lower-cased
\* string with no word character right before or right after it.
OccursAt(str, pat, i) ==
    /\ i + Len(pat) - 1 <= Len(str)
    /\ \A j \in 1..Len(pat) : LowerAtom(str[i + j - 1]) = pat[j]
    /\ i = 1 \/ ~IsWordAtom(str[i - 1])
    /\ i + Len(pat) - 1 = Len(str) \/ ~IsWordAtom(str[i + Len(pat)])

SearchWords(str, alternatives) ==
    \E pat \in alternatives : \E i \in 1..Len(str) : OccursAt(str, pat, i)

\* audience_like, over the atoms of the model.
AudienceLike ==
    { <<"k", "12">>, <<"k", "-", "12">>, <<"elementary">>,
      <<"middle", " ", "school">>, <<"undergraduate">>, <<"graduate">>,
      <<"student">>, <<"students">>, <<"teacher">>, <<"teachers">>,
      <<"learner">>, <<"learners">> }

\* redflag_gate, over the atoms of the model.
RedflagGate ==
    { <<"only">>, <<"limited">>, <<"eligib">>, <<"require">>, <<"required">>,
      <<"must">> }

\* The computing cue of the mission guardrail, over the atoms of the model.
ComputingCue ==
    { <<"comput">>, <<"computer", " ", "science">>, <<"computer", "science">>,
      <<"cs">>, <<"coding">> }

ComputingTags ==
    { <<"computing", " ", "education", " ", "research">>,
      <<"computer", " ", "science", " ", "education">>,
      <<"computing", " ", "education">> }

\* ------------------------------------------------------------------------
\* The taxonomies of the mapper
\* ------------------------------------------------------------------------
\* Per taxonomy: the canonical tags of <name>.json in ascending string
\* order; a tag, greater than these, that only a stale embeddings table or
\* a synonym file names; the phrases an extractor returns; the entries
\* (synonym, canonical) of flat synonym files: a genuine synonym, a key
\* that normalizes to a canonical name, a key without letters or digits.
Taxonomy ==
    [ mission_tags |->
        [ tags    |-> << <<"STEM", " ", "education">>,
                         <<"computing", " ", "education">> >>,
          stale   |-> <<"informal", " ", "learning">>,
          phrases |-> << <<"stem", "-", "education">>,
                         <<"coding", " ", "clubs">>,
                         <<"robotics", " ", "clubs">> >>,
          synonyms |-> << << <<"Robotics", " ", "clubs">>,
                             <<"STEM", " ", "education">> >>,
                          << <<"STEM", "_", "education">>,
                             <<"informal", " ", "learning">> >>,
                          << <<"-">>, <<"STEM", " ", "education">> >> >> ],
      population_tags |->
        [ tags    |-> << <<"English", " ", "learners">>,
                         <<"rural", " ", "students">> >>,
          stale   |-> <<"youth">>,
          phrases |-> << <<"english", "-", "learners">>,
                         <<"multilingual", " ", "learners">>,
                         <<"rural", " ", "youth">> >>,
          synonyms |-> << << <<"multilingual", "-", "learners">>,
                             <<"English", " ", "learners">> >>,
                          << <<"rural", " ", "students">>,
                             <<"youth">> >>,
                          << <<"-">>, <<"rural", " ", "students">> >> >> ],
      org_types |->
        [ tags    |-> << <<"nonprofit", "_", "501c3">>,
                         <<"public", "_", "school", "_", "district">> >>,
          stale   |-> <<"school", "_", "board">>,
          phrases |-> << <<"Public", " ", "School", " ", "District">>,
                         <<"K", "-", "12", " ", "students">>,
                         <<"nonprofit", " ", "partners">> >>,
          synonyms |-> << << <<"k", "12", " ", "students">>,
                             <<"public", "_", "school", "_", "district">> >>,
                          << <<"public", " ", "school", " ", "district">>,
                             <<"school", "_", "board">> >>,
                          << <<"-">>, <<"nonprofit", "_", "501c3">> >> >> ],
      geography_tags |->
        [ tags    |-> << <<"United", " ", "States">>,
                         <<"us", "_", "national">> >>,
          stale   |-> <<"world">>,
          phrases |-> << <<"united", " ", "states">>,
                         <<"nationwide">>,
                         <<"us", "-", "national">> >>,
          synonyms |-> << << <<"Nationwide">>, <<"us", "_", "national">> >>,
                          << <<"united", "-", "states">>, <<"world">> >>,
                          << <<"-">>, <<"United", " ", "States">> >> >> ],
      red_flag_tags |->
        [ tags    |-> << <<"higher", "_", "education", "_", "only">>,
                         <<"limited", "_", "submission">> >>,
          stale   |-> <<"matching", "_", "funds">>,
          phrases |-> << <<"Higher", " ", "education", " ", "only">>,
                         <<"higher", "-", "education", " ", "partners">>,
                         <<"limited", " ", "submission">> >>,
          synonyms |-> << << <<"higher", "-", "education", " ", "partners">>,
                             <<"higher", "_", "education", "_", "only">> >>,
                          << <<"limited", " ", "submission">>,
                             <<"matching", "_", "funds">> >>,
                          << <<"-">>, <<"limited", "_", "submission">> >> >> ] ]

\* The extractor returns a JSON array of strings, the empty string included.
EmptyPhrase == <<>>

Phrases(name) == Range(Taxonomy[name].phrases) \cup {EmptyPhrase}

\* Every tag a table or a dictionary of the taxonomy can name, ascending.
TagOrder(name) == Taxonomy[name].tags \o <<Taxonomy[name].stale>>

TagRank(name, tag) == CHOOSE i \in DOMAIN TagOrder(name) : TagOrder(name)[i] = tag

\* ------------------------------------------------------------------------
\* pipeline/canonical_mapper.py
\* ------------------------------------------------------------------------
\* similarity_threshold=None, top_k=None
NoneArg == -1

\* The tag list file <name>.json: absent, or a JSON array of strings.
TagListFile(present, tags) == [exists |-> present, tags |-> tags]

\* load_taxonomy_list
load_taxonomy_list(file) ==
    IF ~file.exists THEN [raises |-> TRUE, tags |-> <<>>]
    ELSE [raises |-> FALSE, tags |-> file.tags]

\* Mutant: an absent file reads as the empty table.
load_embeddings_lenient(file) == load_taxonomy_embeddings(file)

\* load_embeddings: FileNotFoundError for an absent file.
load_embeddings(file) ==
    IF ~file.exists THEN [raises |-> TRUE, emb |-> <<>>]
    ELSE load_taxonomy_embeddings(file)

\* dict[key] = value
DictPut(d, key, value) ==
    [k \in DOMAIN d \cup {key} |-> IF k = key THEN value ELSE d[k]]

\* dict.update(other)
DictUpdate(d, other) ==
    [k \in DOMAIN d \cup DOMAIN other |-> IF k \in DOMAIN other THEN other[k] ELSE d[k]]

\* A synonyms directory: absent, or the files <name>_synonyms*.json in
\* sorted name order; a file is auto-generated (*.auto.json) or curated, is
\* JSON or not, and holds a flat map synonym -> canonical in key order.
SynFile(auto, json, entries) == [auto |-> auto, json |-> json, entries |-> entries, shape |-> "flat"]

\* A curated file in one of the other shapes of the loader: "grouped", a
\* map canonical -> list of synonyms, or "list", a list of objects
\* {canonical, synonyms}; entries holds the pairs (canonical, synonyms).
ShapedSynFile(shape, groups) == [auto |-> FALSE, json |-> TRUE, entries |-> groups, shape |-> shape]
SynDir(present, files) == [exists |-> present, files |-> files]

\* Case 1 of _load_synonyms_map for one file: out[_normalize_text(k)] = v
\* for every entry with a non-empty value, in key order.
RECURSIVE LoadFlat(_, _)
LoadFlat(out, entries) ==
    IF entries = <<>> THEN out
    ELSE LET k == Head(entries)[1]
             v == Head(entries)[2]
         IN  LoadFlat(IF v # <<>> THEN DictPut(out, _normalize_text(k), v) ELSE out,
                      Tail(entries))

\* Cases 2 and 3 of _load_synonyms_map for one file: for every pair,
\* out[_normalize_text(s)] = canonical for every non-empty synonym s.
RECURSIVE LoadSynonymsOf(_, _, _)
LoadSynonymsOf(out, canonical, syns) ==
    IF syns = <<>> THEN out
    ELSE LoadSynonymsOf(IF Head(syns) # <<>>
                        THEN DictPut(out, _normalize_text(Head(syns)), canonical)
                        ELSE out,
                        canonical, Tail(syns))

RECURSIVE LoadGrouped(_, _)
LoadGrouped(out, groups) ==
    IF groups = <<>> THEN out
    ELSE LoadGrouped(LoadSynonymsOf(out, Head(groups)[1], Head(groups)[2]),
                     Tail(groups))

\* _load_synonyms_map: the curated files in sorted order; *.auto.json files
\* are ignored and a file that does not parse is skipped.
RECURSIVE LoadSynFiles(_, _)
LoadSynFiles(out, files) ==
    IF files = <<>> THEN out
    ELSE LET f == Head(files)
         IN  LoadSynFiles(IF f.auto \/ ~f.json THEN out
                          ELSE IF f.shape = "flat" THEN LoadFlat(out, f.entries)
                          ELSE LoadGrouped(out, f.entries),
                          Tail(files))

_load_synonyms_map(dir) ==
    IF ~dir.exists THEN <<>> ELSE LoadSynFiles(<<>>, dir.files)

\* direct_map: the normalized canonical names, then the synonyms over them.
RECURSIVE TagsByName(_, _)
TagsByName(out, tags) ==
    IF tags = <<>> THEN out
    ELSE TagsByName(DictPut(out, _normalize_text(Head(tags)), Head(tags)), Tail(tags))

\* Mutant: without the tag list the synonyms are not merged either.
DirectMap_without_list ==
    LET loaded == load_taxonomy_list(mapEnv.tagList)
    IN  IF loaded.raises THEN <<>>
        ELSE DictUpdate(TagsByName(<<>>, loaded.tags),
                        _load_synonyms_map(mapEnv.synDir))

DirectMap ==
    LET loaded == load_taxonomy_list(mapEnv.tagList)
        names  == IF loaded.raises THEN <<>> ELSE TagsByName(<<>>, loaded.tags)
    IN  DictUpdate(names, _load_synonyms_map(mapEnv.synDir))

\* _threshold_for_taxonomy and _loose_threshold_for_taxonomy
ThresholdKey(taxonomy_name) ==
    DictGet(settings.THRESHOLD_KEY_BY_TAXONOMY, taxonomy_name, "default")

_threshold_for_taxonomy(taxonomy_name) ==
    DictGet(settings.THRESHOLDS, ThresholdKey(taxonomy_name),
            DictGet(settings.THRESHOLDS, "default", 5100))

_loose_threshold_for_taxonomy(taxonomy_name) ==
    DictGet(settings.THRESHOLDS_LOOSE, ThresholdKey(taxonomy_name),
            DictGet(settings.THRESHOLDS, ThresholdKey(taxonomy_name), 5000))


\* _allow_mapping: the guardrails of the taxonomy.
_allow_mapping(taxonomy_name, phrase, tag) ==
    /\ taxonomy_name = "org_types" => ~SearchWords(phrase, AudienceLike)
    /\ taxonomy_name = "red_flag_tags" => SearchWords(phrase, RedflagGate)
    /\ (taxonomy_name = "mission_tags" /\ Lower(tag) \in ComputingTags)
          => SearchWords(phrase, ComputingCue)
    /\ (taxonomy_name = "population_tags"
          /\ Lower(tag) = <<"english", " ", "learners">>)
          => SearchWords(phrase, {<<"english">>})

\* embed_text: the provider's vector of the phrase; the call raises for
\* the inputs the provider rejects.
PhraseVectors == << <<1, 0>>, <<4, 3>>, <<0, 1>> >>

PhraseVec(phrase) ==
    IF phrase = EmptyPhrase THEN <<3, 4>>
    ELSE LET ps == Taxonomy[mapEnv.taxonomy].phrases
         IN  PhraseVectors[CHOOSE i \in DOMAIN ps : ps[i] = phrase]

embed_text(phrase) ==
    [raises |-> phrase \in mapEnv.rejected, vec |-> PhraseVec(phrase)]

\* Comparison of two scores num/den with positive denominators.
ScoreGreater(a, b) == a.num * b.den > b.num * a.den
ScoreEqual(a, b)   == a.num * b.den = b.num * a.den

\* Ascending order of two tag strings.
StringLess(a, b) ==
    \E name \in DOMAIN Taxonomy :
        /\ a \in Range(TagOrder(name)) /\ b \in Range(TagOrder(name))
        /\ TagRank(name, a) < TagRank(name, b)

\* The order of two (tag, score) pairs: score descending, then tag ascending.
CandidateBefore(c, d) ==
    \/ ScoreGreater(c.score, d.score)
    \/ ScoreEqual(c.score, d.score) /\ StringLess(c.tag, d.tag)

RECURSIVE Ranked(_)
Ranked(pairs) ==
    IF pairs = {} THEN <<>>
    ELSE CHOOSE r \in
           { <<c>> \o Ranked(pairs \ {c}) :
               c \in {x \in pairs : \A d \in pairs \ {x} : CandidateBefore(x, d)} } :
           TRUE

\* top_k_matches(phrase, taxonomy_embeddings, k): the (tag, score) pairs of
\* the table by score descending, ties by tag ascending, the first k.
top_k_matches(phrase, taxonomy_embeddings, k) ==
    LET e == embed_text(phrase)
    IN  IF e.raises THEN [raises |-> TRUE, candidates |-> <<>>]
        ELSE CHOOSE r \in
               { [raises |-> FALSE,
                  candidates |->
                     SubSeq(ranked, 1,
                            IF k < Len(ranked) THEN Max2(k, 0) ELSE Len(ranked))] :
                   ranked \in
                     { Ranked({[tag |-> t,
                                score |-> cosine_similarity(e.vec,
                                                            taxonomy_embeddings[t])] :
                                 t \in DOMAIN taxonomy_embeddings}) } } :
               TRUE

\* round(score, 4), in units of 10^-4, for a score that is not negative.
Round4(score) == (2 * 10000 * score.num + score.den) \div (2 * score.den)

\* Mutant: the comparison with the threshold is reversed.
ClearsThreshold_below(score, thresh) == score.num * 10000 <= thresh * score.den

\* score >= thresh, the threshold in units of 10^-4.
ClearsThreshold(score, thresh) == score.num * 10000 >= thresh * score.den

Assignment(tag, phrase, confidence) ==
    [tag |-> tag, source_text |-> phrase, confidence |-> confidence]

\* Mutant: the top-1 gate is ignored.
_append_by_thresh_all(taxonomy_name, phrase, candidates, thresh, top1_gate) ==
    LET keep(c) == /\ ClearsThreshold(c.score, thresh)
                   /\ _allow_mapping(taxonomy_name, phrase, c.tag)
        kept    == SelectSeq(candidates, keep)
    IN  [i \in DOMAIN kept |-> Assignment(kept[i].tag, phrase, Round4(kept[i].score))]

\* _append_by_thresh: the assignments one pass appends for the phrase.
_append_by_thresh(taxonomy_name, phrase, candidates, thresh, top1_gate) ==
    LET keep(c) == /\ ClearsThreshold(c.score, thresh)
                   /\ _allow_mapping(taxonomy_name, phrase, c.tag)
        kept    == SelectSeq(IF top1_gate /\ candidates # <<>>
                             THEN <<candidates[1]>> ELSE candidates, keep)
    IN  [i \in DOMAIN kept |-> Assignment(kept[i].tag, phrase, Round4(kept[i].score))]

\* Mutant: the phrase is looked up without normalization.
DirectTag_raw(phrase, direct_map) == DictGet(direct_map, phrase, <<>>)

\* direct_map.get(_normalize_text(phrase)); None is the empty string here.
DirectTag(phrase, direct_map) == DictGet(direct_map, _normalize_text(phrase), <<>>)

\* The embedding fallback of one phrase: the strict pass and, when it
\* appended nothing and the loose threshold is lower, the loose pass.
Fallback(taxonomy_name, phrase, candidates, similarity_threshold, top1_gate) ==
    LET loose == _loose_threshold_for_taxonomy(taxonomy_name)
    IN  CHOOSE items \in
          { IF strict = <<>> /\ loose < similarity_threshold
            THEN _append_by_thresh(taxonomy_name, phrase, candidates, loose,
                                   top1_gate)
            ELSE strict :
              strict \in {_append_by_thresh(taxonomy_name, phrase, candidates,
                                            similarity_threshold, top1_gate)} } :
          TRUE

\* Mutant: a dictionary hit is taken without asking the guardrail.
MapPhrase_unguarded(taxonomy_name, phrase, direct_map, taxonomy_embeddings, similarity_threshold, top_k, top1_gate) ==
    LET direct_tag == DirectTag(phrase, direct_map)
    IN  IF direct_tag # <<>>
        THEN [raises |-> FALSE, hit |-> TRUE, candidates |-> <<>>,
              items |-> <<Assignment(direct_tag, phrase, 10000)>>]
        ELSE CHOOSE r \in
               { IF top.raises
                 THEN [raises |-> TRUE, hit |-> FALSE, candidates |-> <<>>,
                       items |-> <<>>]
                 ELSE [raises |-> FALSE, hit |-> FALSE,
                       candidates |-> top.candidates,
                       items |-> Fallback(taxonomy_name, phrase, top.candidates,
                                          similarity_threshold, top1_gate)] :
                   top \in {top_k_matches(phrase, taxonomy_embeddings, top_k)} } :
               TRUE

\* One iteration of the loop over extracted_phrases: the dictionary hit, or
\* the candidates of top_k_matches and the fallback on them.
MapPhrase(taxonomy_name, phrase, direct_map, taxonomy_embeddings, similarity_threshold, top_k, top1_gate) ==
    LET direct_tag == DirectTag(phrase, direct_map)
    IN  IF direct_tag # <<>> /\ _allow_mapping(taxonomy_name, phrase, direct_tag)
        THEN [raises |-> FALSE, hit |-> TRUE, candidates |-> <<>>,
              items |-> <<Assignment(direct_tag, phrase, 10000)>>]
        ELSE CHOOSE r \in
               { IF top.raises
                 THEN [raises |-> TRUE, hit |-> FALSE, candidates |-> <<>>,
                       items |-> <<>>]
                 ELSE [raises |-> FALSE, hit |-> FALSE,
                       candidates |-> top.candidates,
                       items |-> Fallback(taxonomy_name, phrase, top.candidates,
                                          similarity_threshold, top1_gate)] :
                   top \in {top_k_matches(phrase, taxonomy_embeddings, top_k)} } :
               TRUE

\* results, after the loop.
RECURSIVE Concat(_)
Concat(per_phrase) ==
    IF per_phrase = <<>> THEN <<>>
    ELSE Head(per_phrase).items \o Concat(Tail(per_phrase))

\* Mutant: the later assignment of a tag always replaces the confidence.
DedupStep_last_wins(best_by_tag, item) ==
    LET src == item.source_text
        at  == {i \in DOMAIN best_by_tag : best_by_tag[i].tag = item.tag}
    IN  IF at = {}
        THEN Append(best_by_tag,
                    [tag |-> item.tag, source_text |-> src,
                     confidence |-> item.confidence,
                     sources |-> IF src # <<>> THEN <<src>> ELSE <<>>])
        ELSE LET i == CHOOSE j \in at : TRUE
                 b == best_by_tag[i]
             IN  [best_by_tag EXCEPT ![i] =
                    [tag |-> b.tag, source_text |-> src,
                     confidence |-> item.confidence,
                     sources |-> IF src # <<>> /\ src \notin Range(b.sources)
                                 THEN Append(b.sources, src) ELSE b.sources]]

\* One iteration of the deduplication loop; best_by_tag is a dict in
\* insertion order, here the sequence of its values.
DedupStep(best_by_tag, item) ==
    LET src == item.source_text
        at  == {i \in DOMAIN best_by_tag : best_by_tag[i].tag = item.tag}
    IN  IF at = {}
        THEN Append(best_by_tag,
                    [tag |-> item.tag, source_text |-> src,
                     confidence |-> item.confidence,
                     sources |-> IF src # <<>> THEN <<src>> ELSE <<>>])
        ELSE LET i == CHOOSE j \in at : TRUE
                 b == best_by_tag[i]
                 better == item.confidence > b.confidence
             IN  [best_by_tag EXCEPT ![i] =
                    [tag |-> b.tag,
                     source_text |-> IF better THEN src ELSE b.source_text,
                     confidence |-> IF better THEN item.confidence ELSE b.confidence,
                     sources |-> IF src # <<>> /\ src \notin Range(b.sources)
                                 THEN Append(b.sources, src) ELSE b.sources]]

RECURSIVE Dedup(_, _)
Dedup(best_by_tag, results) ==
    IF results = <<>> THEN best_by_tag
    ELSE Dedup(DedupStep(best_by_tag, Head(results)), Tail(results))

\* sorted(best_by_tag.values(), key=confidence, reverse=True): stable.
InsertByConfidence(sorted, d) ==
    LET n == Cardinality({i \in DOMAIN sorted : sorted[i].confidence >= d.confidence})
    IN  SubSeq(sorted, 1, n) \o <<d>> \o SubSeq(sorted, n + 1, Len(sorted))

RECURSIVE SortByConfidence(_, _)
SortByConfidence(sorted, values) ==
    IF values = <<>> THEN sorted
    ELSE SortByConfidence(InsertByConfidence(sorted, Head(values)), Tail(values))

\* The loop over extracted_phrases.
RECURSIVE MapPhrases(_, _, _, _, _, _, _)
MapPhrases(taxonomy_name, phrases, direct_map, taxonomy_embeddings, similarity_threshold, top_k, top1_gate) ==
    IF phrases = <<>> THEN <<>>
    ELSE <<MapPhrase(taxonomy_name, Head(phrases), direct_map,
                     taxonomy_embeddings, similarity_threshold, top_k,
                     top1_gate)>>
         \o MapPhrases(taxonomy_name, Tail(phrases), direct_map,
                       taxonomy_embeddings, similarity_threshold, top_k,
                       top1_gate)

\* The loop on the loaded dictionary and table, with the defaults resolved.
PerPhrase(extracted_phrases, taxonomy_name, similarity_threshold, top_k) ==
    LET thresh == IF similarity_threshold = NoneArg
                  THEN _threshold_for_taxonomy(taxonomy_name)
                  ELSE similarity_threshold
        k      == IF top_k = NoneArg
                  THEN DictGet(settings.TOP_K_BY_TAXONOMY, taxonomy_name,
                               settings.TOP_K)
                  ELSE top_k
        top1_gate == taxonomy_name \in settings.TOP1_TAXONOMIES
    IN  CHOOSE per \in
          { MapPhrases(taxonomy_name, extracted_phrases, direct_map, table,
                       thresh, k, top1_gate) :
              direct_map \in {DirectMap},
              table \in {load_embeddings(embFiles[taxonomy_name]).emb} } :
          TRUE

\* The deduplication, the sort and the re-rounding of the results.
Deduplicate(results) == SortByConfidence(<<>>, Dedup(<<>>, results))

\* The value returned after the loop, or the exception of a phrase.
Returned(per) ==
    IF \E i \in DOMAIN per : per[i].raises
    THEN [raises |-> TRUE, error |-> "ProviderError", per_phrase |-> <<>>,
          results |-> <<>>, deduped |-> <<>>]
    ELSE CHOOSE out \in
           { [raises |-> FALSE, error |-> "None", per_phrase |-> per,
              results |-> results, deduped |-> Deduplicate(results)] :
               results \in {Concat(per)} } : TRUE

\* map_phrases_to_canonical(extracted_phrases, taxonomy_name,
\* similarity_threshold, top_k)
map_phrases_to_canonical(extracted_phrases, taxonomy_name, similarity_threshold, top_k) ==
    IF load_embeddings(embFiles[taxonomy_name]).raises
    THEN [raises |-> TRUE, error |-> "FileNotFoundError", per_phrase |-> <<>>,
          results |-> <<>>, deduped |-> <<>>]
    ELSE CHOOSE out \in
           { Returned(per) :
               per \in {PerPhrase(extracted_phrases, taxonomy_name,
                                  similarity_threshold, top_k)} } : TRUE

\* ------------------------------------------------------------------------
\* The mapper's files, configuration and calls
\* ------------------------------------------------------------------------
MaxPhrases == 2

\* The vectors build_taxonomy_embeddings stored for the tags.
TagVectors == {<<3, 4>>, <<5, 12>>}

\* <name>_embeddings.json: absent; a table of the listed tags; or a stale
\* table that also holds a tag no longer in the list.
MapperTables(name) ==
    LET tags == Range(Taxonomy[name].tags)
        t1   == Taxonomy[name].tags[1]
    IN  {MissingFile}
        \cup {TableFile(t) : t \in [tags -> TagVectors]}
        \cup {TableFile([t \in tags \cup {Taxonomy[name].stale} |->
                            IF t = t1 THEN <<3, 4>>
                            ELSE IF t \in tags THEN <<1, 0>> ELSE <<0, 1>>])}

\* synonyms/: absent; an auto-generated file next to a curated one; a
\* curated file that does not parse next to one that does.
SynonymDirs(name) ==
    LET e == Taxonomy[name].synonyms
    IN  { SynDir(FALSE, <<>>),
          SynDir(TRUE, << SynFile(TRUE, TRUE, <<e[2]>>),
                          SynFile(FALSE, TRUE, <<e[1]>>) >>),
          SynDir(TRUE, << SynFile(FALSE, TRUE, e),
                          SynFile(FALSE, FALSE, <<>>) >>) }

\* similarity_threshold and top_k of a call.
ThresholdArgs == {NoneArg, 7000, 9900}
TopKArgs == {NoneArg, 1}

InitMap ==
    /\ \E name \in DOMAIN Taxonomy :
          /\ mapEnv \in [taxonomy : {name},
                         tagList  : {TagListFile(FALSE, <<>>),
                                     TagListFile(TRUE, Taxonomy[name].tags)},
                         synDir   : SynonymDirs(name),
                         rejected : {{}, {EmptyPhrase}}]
          /\ embFiles \in [{name} -> MapperTables(name)]
          /\ settings \in {[DefaultSettings EXCEPT !.TOP1_TAXONOMIES = t] :
                             t \in {{}, {name}}}
    /\ org = Profile(NoTags)
    /\ grant = Profile(NoTags)
    /\ match = NoResult
    /\ grantsDir = <<>>
    /\ recOut = NoResult
    /\ mapCall = NoResult
    /\ mapOut = NoResult
    /\ batch = NoResult
    /\ merge = NoResult
    /\ build = NoResult
    /\ synOut = NoResult

\* map_phrases_to_canonical(extracted_phrases, taxonomy_name,
\* similarity_threshold, top_k) on the files and the configuration.
MapPhrasesToCanonical(extracted_phrases, similarity_threshold, top_k) ==
    /\ mapOut = NoResult
    /\ mapCall' = [done |-> TRUE, extracted_phrases |-> extracted_phrases,
                   similarity_threshold |-> similarity_threshold,
                   top_k |-> top_k]
    /\ \E out \in {map_phrases_to_canonical(extracted_phrases, mapEnv.taxonomy,
                                             similarity_threshold, top_k)} :
          mapOut' = [done |-> TRUE, raises |-> out.raises, error |-> out.error,
                     per_phrase |-> out.per_phrase, results |-> out.results,
                     deduped |-> out.deduped]
    /\ UNCHANGED <<settings, embFiles, org, grant, match, grantsDir, recOut,
                   mapEnv, batch, merge,
                   build, synOut>>

\* One call per behaviour, on any phrase list and arguments.
NextMap ==
    /\ mapOut = NoResult
    /\ \E extracted_phrases \in SeqsUpTo(Phrases(mapEnv.taxonomy), MaxPhrases) :
         \E similarity_threshold \in ThresholdArgs :
           \E top_k \in TopKArgs :
             MapPhrasesToCanonical(extracted_phrases, similarity_threshold, top_k)

SpecMap == InitMap /\ [][NextMap]_vars

\* ------------------------------------------------------------------------
\* pipeline/grant_profile_builder.py, pipeline/org_profile_builder.py:
\* _main with --all
\* ------------------------------------------------------------------------
\* File names and ids are sequences of characters, in the order of their
\* code points.
CharOrder == <<".", "a", "b", "t", "x">>

CharRank(c) == CHOOSE i \in DOMAIN CharOrder : CharOrder[i] = c

\* a < b on two names
RECURSIVE NameLess(_, _)
NameLess(a, b) ==
    IF b = <<>> THEN FALSE
    ELSE IF a = <<>> THEN TRUE
    ELSE IF Head(a) = Head(b) THEN NameLess(Tail(a), Tail(b))
    ELSE CharRank(Head(a)) < CharRank(Head(b))

\* dir_path.glob("*" + ext): the name ends with ext.
GlobMatches(name, ext) ==
    /\ Len(ext) <= Len(name)
    /\ SubSeq(name, Len(name) - Len(ext) + 1, Len(name)) = ext

\* Path.stem: the name without its last suffix.
Stem(name) ==
    LET dots == {i \in DOMAIN name : name[i] = "."}
        last == CHOOSE i \in dots : \A j \in dots : j <= i
    IN  IF dots = {} THEN name
        ELSE IF last = 1 \/ last = Len(name) THEN name
        ELSE SubSeq(name, 1, last - 1)

\* The names a directory of inputs may hold: a.txt, a.xtxt, b.txt.
InputNames ==
    { <<"a", ".", "t", "x", "t">>,
      <<"a", ".", "x", "t", "x", "t">>,
      <<"b", ".", "t", "x", "t">> }

\* A directory: every name is absent, a file whose profile gets built and
\* saved, or a file on which reading, building or saving raises.
InputDirs ==
    { {[name |-> n, raises |-> (how[n] = "raises")] :
          n \in {m \in InputNames : how[m] # "absent"}} :
        how \in [InputNames -> {"absent", "ok", "raises"}] }

\* --ext: the default and a value without the dot.
ExtArgs == { <<".", "t", "x", "t">>, <<"t", "x", "t">> }

\* --grant-id / --org-id: not given (or empty), or an id.
IdArgs == { <<>>, <<"b">> }

\* sorted(...)
RECURSIVE SortedFiles(_)
SortedFiles(files) ==
    IF files = {} THEN <<>>
    ELSE LET first == CHOOSE f \in files :
                         \A g \in files \ {f} : NameLess(f.name, g.name)
         IN  <<first>> \o SortedFiles(files \ {first})

\* files = sorted(p for p in dir_path.glob(f"*{args.ext}") if p.is_file())
Glob(dir, ext) == SortedFiles({f \in dir : GlobMatches(f.name, ext)})

\* gid = args.grant_id or f.stem   (oid = args.org_id or f.stem)
ProfileId(id_arg, f) == IF id_arg # <<>> THEN id_arg ELSE Stem(f.name)

\* save_grant_profile, save_org_profile: OUTPUT_DIR / f"{id}_profile.json"
OutputPath(profile_id) == profile_id \o <<"_profile.json">>

\* return 0 if total_fail == 0 else 1
ExitCode(fail) == IF fail = 0 THEN 0 ELSE 1

\* try: the profile of f is built and written (open(output_path, "w")
\* replaces what the path held), [ok] is printed and counted.
OnSuccess(b, f) ==
    LET path == OutputPath(ProfileId(b.id_arg, f))
    IN  [b EXCEPT !.written = Append(@, [path |-> path, input |-> f.name]),
                  !.reports = Append(@, [file |-> f.name, status |-> "ok",
                                         out |-> path]),
                  !.ok = @ + 1,
                  !.i = @ + 1]

\* Mutant: the exception leaves the loop and the program.
OnFailure_abort(b, f) ==
    [b EXCEPT !.pc = "exit", !.done = TRUE, !.exit_code = 1]

\* except Exception: [error] is printed and counted, the loop goes on.
OnFailure(b, f) ==
    [b EXCEPT !.reports = Append(@, [file |-> f.name, status |-> "error",
                                     out |-> <<>>]),
              !.fail = @ + 1,
              !.i = @ + 1]

\* ------------------------------------------------------------------------
\* SpecBatch: a builder runs with --all; recommend runs over a directory
\* ------------------------------------------------------------------------
MaxBatchGrants == 2

BatchGrantFiles ==
    { GrantFile(ScenarioGrantTags,
                [dates |-> <<"2025-01-08">>, status |-> "date"],
                [estimated_min |-> 5000, estimated_max |-> 50000]),
      BrokenGrantFile }

InitBatch ==
    /\ settings = DefaultSettings
    /\ embFiles = [mission_tags |-> MissingFile,
                   population_tags |-> TableFile(<<>>)]
    /\ org = Profile(ScenarioOrgTags)
    /\ grant = Profile(NoTags)
    /\ match = NoResult
    /\ grantsDir \in SeqsUpTo(BatchGrantFiles, MaxBatchGrants)
    /\ recOut = NoResult
    /\ mapEnv = NoResult
    /\ mapCall = NoResult
    /\ mapOut = NoResult
    /\ \E builder \in {"grant_profile_builder", "org_profile_builder"} :
         \E dir_exists \in BOOLEAN :
           \E dir \in (IF dir_exists THEN InputDirs ELSE {{}}) :
             \E ext \in ExtArgs :
               \E id_arg \in IdArgs :
                 batch = [done |-> FALSE, pc |-> "start", builder |-> builder,
                          dir_exists |-> dir_exists, dir |-> dir, ext |-> ext,
                          id_arg |-> id_arg, files |-> <<>>, i |-> 1,
                          ok |-> 0, fail |-> 0, exit_code |-> NoneArg,
                          reports |-> <<>>, written |-> <<>>]
    /\ merge = NoResult
    /\ build = NoResult
    /\ synOut = NoResult

\* _main, --all: up to the loop.
BatchStart ==
    /\ batch.pc = "start"
    /\ batch' =
         IF ~batch.dir_exists
         THEN [batch EXCEPT !.pc = "exit", !.done = TRUE, !.exit_code = 1]
         ELSE LET files == Glob(batch.dir, batch.ext)
              IN  IF files = <<>>
                  THEN [batch EXCEPT !.pc = "exit", !.done = TRUE,
                                     !.exit_code = 0]
                  ELSE [batch EXCEPT !.pc = "loop", !.files = files]
    /\ UNCHANGED <<settings, embFiles, org, grant, match, grantsDir, recOut,
                   mapEnv, mapCall, mapOut, merge,
                   build, synOut>>

\* _main, --all: one turn of `for f in files`.
BatchFile ==
    /\ batch.pc = "loop"
    /\ batch.i <= Len(batch.files)
    /\ LET f == batch.files[batch.i]
       IN  batch' = IF f.raises THEN OnFailure(batch, f)
                    ELSE OnSuccess(batch, f)
    /\ UNCHANGED <<settings, embFiles, org, grant, match, grantsDir, recOut,
                   mapEnv, mapCall, mapOut, merge,
                   build, synOut>>

\* _main, --all: after the loop.
BatchExit ==
    /\ batch.pc = "loop"
    /\ batch.i > Len(batch.files)
    /\ batch' = [batch EXCEPT !.pc = "exit", !.done = TRUE,
                              !.exit_code = ExitCode(batch.fail)]
    /\ UNCHANGED <<settings, embFiles, org, grant, match, grantsDir, recOut,
                   mapEnv, mapCall, mapOut, merge,
                   build, synOut>>

NextBatch ==
    \/ BatchStart
    \/ BatchFile
    \/ BatchExit
    \/ \E top \in (-1)..(MaxBatchGrants + 1) : Recommend(top)

SpecBatch == InitBatch /\ [][NextBatch]_vars

\* ------------------------------------------------------------------------
\* pipeline/merge_auto_synonyms.py
\* ------------------------------------------------------------------------
\* The lower-case atoms of synonym keys in the order of their strings
\* (" " < "-" < "_" < letters).
KeyAtomOrder == <<" ", "-", "_", "clubs", "coding", "robotics">>

KeyAtomRank(a) == CHOOSE i \in DOMAIN KeyAtomOrder : KeyAtomOrder[i] = a

\* a < b on two lower-cased keys
RECURSIVE KeyLess(_, _)
KeyLess(a, b) ==
    IF b = <<>> THEN FALSE
    ELSE IF a = <<>> THEN TRUE
    ELSE IF Head(a) = Head(b) THEN KeyLess(Tail(a), Tail(b))
    ELSE KeyAtomRank(Head(a)) < KeyAtomRank(Head(b))

\* A synonyms file of merge_auto_synonyms: absent, not JSON, or a flat map
\* in key order.
MapFile(present, json, entries) == [exists |-> present, json |-> json, entries |-> entries, shape |-> "flat"]

\* A curated file that holds a map canonical -> list of synonyms
\* ("grouped") or a list of objects {canonical, synonyms} ("list").
ShapedMapFile(shape, groups) == [exists |-> TRUE, json |-> TRUE, entries |-> groups, shape |-> shape]

\* _load_map: {} for a missing file, the string -> string entries with a
\* non-empty key and value otherwise; json.load raises on a file that is
\* not JSON.  A list is not a dict and the values of a grouped map are
\* not strings: both read as {}.
_load_map(file) ==
    IF ~file.exists THEN [raises |-> FALSE, map |-> <<>>]
    ELSE IF ~file.json THEN [raises |-> TRUE, map |-> <<>>]
    ELSE IF file.shape # "flat" THEN [raises |-> FALSE, map |-> <<>>]
    ELSE [raises |-> FALSE,
          map |-> SelectSeq(file.entries, LAMBDA e : e[1] # <<>> /\ e[2] # <<>>)]

EntryKeys(entries) == {entries[i][1] : i \in DOMAIN entries}

EntryValue(entries, key) ==
    entries[CHOOSE i \in DOMAIN entries : entries[i][1] = key][2]

\* merged = dict(auto); merged.update(manual): the keys of auto in their
\* order, with the value of manual where manual has the key, then the
\* other keys of manual.
MergedDict(auto, manual) ==
    [i \in DOMAIN auto |->
        IF auto[i][1] \in EntryKeys(manual)
        THEN <<auto[i][1], EntryValue(manual, auto[i][1])>>
        ELSE auto[i]]
    \o SelectSeq(manual, LAMBDA e : e[1] \notin EntryKeys(auto))

\* sorted(m.keys(), key=lambda x: x.lower()): a stable sort.
RECURSIVE InsertByLowerKey(_, _)
InsertByLowerKey(sorted, entry) ==
    IF sorted = <<>> THEN <<entry>>
    ELSE IF KeyLess(Lower(entry[1]), Lower(Head(sorted)[1]))
         THEN <<entry>> \o sorted
         ELSE <<Head(sorted)>> \o InsertByLowerKey(Tail(sorted), entry)

RECURSIVE SortByLowerKey(_, _)
SortByLowerKey(sorted, entries) ==
    IF entries = <<>> THEN sorted
    ELSE SortByLowerKey(InsertByLowerKey(sorted, Head(entries)), Tail(entries))

\* _write_map: the file holds the entries in the order of their lower-cased
\* keys.
_write_map(m) == MapFile(TRUE, TRUE, SortByLowerKey(<<>>, m))

\* merge_for_taxonomy(name, delete_auto): the files after the call, and
\* whether it raised or returned None.
merge_for_taxonomy(files, delete_auto) ==
    LET manual == _load_map(files.manual)
        auto   == _load_map(files.auto)
    IN  IF manual.raises \/ auto.raises
        THEN [raises |-> TRUE, returned |-> FALSE, manual |-> files.manual,
              auto |-> files.auto]
        ELSE IF manual.map = <<>> /\ auto.map = <<>>
        THEN [raises |-> FALSE, returned |-> FALSE, manual |-> files.manual,
              auto |-> files.auto]
        ELSE [raises |-> FALSE, returned |-> TRUE,
              manual |-> _write_map(MergedDict(auto.map, manual.map)),
              auto |-> IF delete_auto /\ files.auto.exists
                       THEN MapFile(FALSE, FALSE, <<>>) ELSE files.auto]

\* The synonyms directory the mapper sees: <name>_synonyms.auto.json sorts
\* before <name>_synonyms.json.
SynDirOf(files) ==
    SynDir(TRUE,
           (IF files.auto.exists
            THEN <<SynFile(TRUE, files.auto.json, files.auto.entries)>> ELSE <<>>)
           \o (IF files.manual.exists
               THEN <<[SynFile(FALSE, files.manual.json, files.manual.entries)
                          EXCEPT !.shape = files.manual.shape]>>
               ELSE <<>>))

\* ------------------------------------------------------------------------
\* SpecMerge: the synonym files of one taxonomy are merged and loaded
\* ------------------------------------------------------------------------
MaxSynonyms == 2

\* Raw keys: three spellings of one phrase and another phrase.
MergeKeys ==
    << <<"Robotics", " ", "clubs">>,
       <<"robotics", " ", "clubs">>,
       <<"robotics", "-", "clubs">>,
       <<"coding", " ", "clubs">> >>

MergeTags == { <<"STEM", " ", "education">>, <<"computing", " ", "education">> }

\* The flat maps of at most MaxSynonyms entries, in the order of MergeKeys.
RECURSIVE EntriesFrom(_, _)
EntriesFrom(i, n) ==
    IF i > Len(MergeKeys) THEN {<<>>}
    ELSE LET rest == EntriesFrom(i + 1, n)
             more == IF n = 0 THEN {} ELSE EntriesFrom(i + 1, n - 1)
         IN  rest \cup {<<<<MergeKeys[i], t>>>> \o r : t \in MergeTags, r \in more}

MergeMaps == EntriesFrom(1, MaxSynonyms)

InitMerge ==
    /\ settings = DefaultSettings
    /\ embFiles = <<>>
    /\ org = Profile(NoTags)
    /\ grant = Profile(NoTags)
    /\ match = NoResult
    /\ grantsDir = <<>>
    /\ recOut = NoResult
    /\ mapEnv = NoResult
    /\ mapCall = NoResult
    /\ mapOut = NoResult
    /\ batch = NoResult
    /\ build = NoResult
    /\ synOut = NoResult
    /\ \E manual \in {MapFile(FALSE, FALSE, <<>>), MapFile(TRUE, FALSE, <<>>)}
                        \cup {MapFile(TRUE, TRUE, m) : m \in MergeMaps} :
         \E auto \in {MapFile(FALSE, FALSE, <<>>)}
                        \cup {MapFile(TRUE, TRUE, m) : m \in MergeMaps} :
           merge = [done |-> FALSE, raises |-> FALSE, returned |-> FALSE,
                    before |-> [manual |-> manual, auto |-> auto],
                    files  |-> [manual |-> manual, auto |-> auto],
                    loaded |-> NoResult]

\* merge_for_taxonomy(name, delete_auto)
MergeForTaxonomy(delete_auto) ==
    /\ ~merge.done
    /\ LET out == merge_for_taxonomy(merge.files, delete_auto)
       IN  merge' = [merge EXCEPT !.done = TRUE, !.raises = out.raises,
                                  !.returned = out.returned,
                                  !.files = [manual |-> out.manual,
                                             auto |-> out.auto]]
    /\ UNCHANGED <<settings, embFiles, org, grant, match, grantsDir, recOut,
                   mapEnv, mapCall, mapOut, batch,
                   build, synOut>>

\* _load_synonyms_map(name) on the files as they are.
LoadSynonyms ==
    /\ merge.loaded = NoResult
    /\ merge' = [merge EXCEPT !.loaded =
                    [done |-> TRUE, merged |-> merge.done,
                     map |-> _load_synonyms_map(SynDirOf(merge.files))]]
    /\ UNCHANGED <<settings, embFiles, org, grant, match, grantsDir, recOut,
                   mapEnv, mapCall, mapOut, batch,
                   build, synOut>>

NextMerge ==
    \/ \E delete_auto \in BOOLEAN : MergeForTaxonomy(delete_auto)
    \/ LoadSynonyms

SpecMerge == InitMerge /\ [][NextMerge]_vars

\* ------------------------------------------------------------------------
\* SpecShapes: the curated file has any shape the loader reads
\* ------------------------------------------------------------------------
\* The pairs (canonical, synonyms) of a grouped or a list file: one tag
\* with one or two synonyms, or two tags with one synonym each.
ShapedGroups ==
    { << <<t, <<MergeKeys[i]>> >> >> : t \in MergeTags, i \in DOMAIN MergeKeys }
    \cup { << <<t, <<MergeKeys[i], MergeKeys[4]>> >> >> :
              t \in MergeTags, i \in 1..3 }
    \cup { << <<p[1], <<MergeKeys[1]>> >>, <<p[2], <<MergeKeys[4]>> >> >> :
              p \in {q \in MergeTags \X MergeTags : q[1] # q[2]} }

InitShapes ==
    /\ settings = DefaultSettings
    /\ embFiles = <<>>
    /\ org = Profile(NoTags)
    /\ grant = Profile(NoTags)
    /\ match = NoResult
    /\ grantsDir = <<>>
    /\ recOut = NoResult
    /\ mapEnv = NoResult
    /\ mapCall = NoResult
    /\ mapOut = NoResult
    /\ batch = NoResult
    /\ build = NoResult
    /\ synOut = NoResult
    /\ \E manual \in {MapFile(TRUE, TRUE, m) : m \in MergeMaps \ {<<>>}}
                        \cup {ShapedMapFile(shape, g) :
                                 shape \in {"grouped", "list"}, g \in ShapedGroups} :
         \E auto_file \in {MapFile(FALSE, FALSE, <<>>)}
                             \cup {MapFile(TRUE, TRUE, m) : m \in EntriesFrom(1, 1)} :
           merge = [done |-> FALSE, raises |-> FALSE, returned |-> FALSE,
                    before |-> [manual |-> manual, auto |-> auto_file],
                    files  |-> [manual |-> manual, auto |-> auto_file],
                    loaded |-> NoResult]

SpecShapes == InitShapes /\ [][NextMerge]_vars

\* ------------------------------------------------------------------------
\* pipeline/org_profile_builder.py: build_org_profile, the org-type tags
\* ------------------------------------------------------------------------
\* audience_like of build_org_profile, over the atoms of the model.
OrgAudienceLike ==
    AudienceLike \cup { <<"high", " ", "school">>, <<"higher", " ", "education">>,
                        <<"postdoctoral">>, <<"instructor">>, <<"instructors">> }

\* Step 1: an org-type item is kept if one of its sources (sources, or
\* source_text when sources is empty) is not empty and not audience-like.
CleanOrgTypes(otags) ==
    LET sourcesOf(item) == IF item.sources # <<>> THEN item.sources
                           ELSE <<item.source_text>>
        keep(item) == \E k \in DOMAIN sourcesOf(item) :
                         /\ sourcesOf(item)[k] # <<>>
                         /\ ~SearchWords(sourcesOf(item)[k], OrgAudienceLike)
    IN  SelectSeq(otags, keep)

\* re.search(r"\bnon\s*profit|nonprofit\b", text_lower): a word that begins
\* with "nonprofit", or "non" and a word that begins with "profit" with
\* only white space between them, or a word that ends with "nonprofit".
NonprofitMention(text) ==
    \E i \in DOMAIN text :
        \/ /\ i = 1 \/ ~IsWordAtom(text[i - 1])
           /\ \/ LowerAtom(text[i]) \in {"nonprofit", "nonprofits"}
              \/ /\ LowerAtom(text[i]) = "non"
                 /\ i + 2 <= Len(text)
                 /\ text[i + 1] = " "
                 /\ LowerAtom(text[i + 2]) \in {"profit", "profits"}
        \/ /\ LowerAtom(text[i]) = "nonprofit"
           /\ i = Len(text) \/ ~IsWordAtom(text[i + 1])

\* The edtech pattern of step 4, over the atoms of the model.
EdtechCue ==
    { <<"edtech">>, <<"education", " ", "technology">>,
      <<"learning", " ", "platform">>, <<"ai", " ", "tutor">> }

\* _append_org_type(tag, src, conf=0.99): appended unless the tag is there.
AppendOrgType(otags, tag, src) ==
    IF \E k \in DOMAIN otags : otags[k].tag = tag THEN otags
    ELSE Append(otags, [tag |-> tag, source_text |-> src, confidence |-> 9900,
                        sources |-> <<>>])

\* Step 4: the tags derived from the self-description.
EnforceOrgTypes(otags, text) ==
    LET nonprofit == IF NonprofitMention(text)
                     THEN AppendOrgType(otags, "501(c)(3) nonprofit",
                              <<"derived: nonprofit mention in org text">>)
                     ELSE otags
    IN  IF SearchWords(text, EdtechCue)
        THEN AppendOrgType(nonprofit, "education technology organization",
                 <<"derived: platform/edtech/AI tutoring mention">>)
        ELSE nonprofit

\* Step 8: _enforce_threshold(items, min_conf)
_enforce_threshold(items, min_conf) ==
    LET clears(it) == it.confidence >= min_conf
    IN  SelectSeq(items, clears)

\* The org_type_tags of the profile build_org_profile returns.
BuiltOrgTypes(text, otags) ==
    _enforce_threshold(EnforceOrgTypes(CleanOrgTypes(otags), text), 7500)

\* build_org_profile for a text in which the extractor finds phrases of
\* the org-type taxonomy only and that names no grade band and no place:
\* the other keys stay empty through steps 2, 3 and 5 to 8.
build_org_profile(text, otags) ==
    [canonical_tags |->
        [k \in Range(TAX_KEYS) |->
            IF k = "org_type_tags" THEN BuiltOrgTypes(text, otags) ELSE <<>>]]

\* Org texts.
OrgTexts ==
    { <<"we", " ", "are", " ", "a", " ", "nonprofit">>,
      <<"we", " ", "are", " ", "a", " ", "non", " ", "profit">>,
      <<"we", " ", "are", " ", "a", " ", "non", "-", "profit">>,
      <<"we", " ", "fund", " ", "nonprofits">>,
      <<"a", " ", "nonprofit", " ", "edtech", " ", "lab">>,
      <<"a", " ", "charter", " ", "network">> }

\* What map_all_taxonomies returns under org_type_tags: nothing; a
\* nonprofit tag above or below the org minimum 0.75; a tag mapped from an
\* audience-like phrase; the tag the builder derives, already mapped.
MappedItem(tag, src, conf) ==
    [tag |-> tag, source_text |-> src, confidence |-> conf, sources |-> <<src>>]

MappedOrgTypes ==
    { <<>>,
      <<MappedItem("nonprofit_501c3", <<"nonprofit">>, 9000)>>,
      <<MappedItem("nonprofit_501c3", <<"non", "-", "profit">>, 7000)>>,
      <<MappedItem("nonprofit_501c3", <<"nonprofit", " ", "teachers">>, 10000)>>,
      <<MappedItem("501(c)(3) nonprofit", <<"nonprofit">>, 8000)>>,
      <<MappedItem("higher_education_institution", <<"lab">>, 8000)>> }

\* The grants an org is scored against: with and without the red flags
\* nonprofits_only and limited_submission.
OrgGrantTags ==
    { [NoTags EXCEPT !.org_type_tags = t, !.red_flag_tags = r] :
        t \in SUBSET TagUniverse.org_type_tags,
        r \in SUBSET {"nonprofits_only", "limited_submission"} }

InitOrg ==
    /\ settings = DefaultSettings
    /\ embFiles = [mission_tags |-> MissingFile, population_tags |-> MissingFile]
    /\ org = Profile(NoTags)
    /\ grant \in {Profile(ts) : ts \in OrgGrantTags}
    /\ match = NoResult
    /\ grantsDir = <<>>
    /\ recOut = NoResult
    /\ mapEnv = NoResult
    /\ mapCall = NoResult
    /\ mapOut = NoResult
    /\ batch = NoResult
    /\ merge = NoResult
    /\ build = NoResult
    /\ synOut = NoResult

\* build_org_profile(org_id, org_text)
BuildOrgProfile(text, otags) ==
    /\ build = NoResult
    /\ build' = [done |-> TRUE, org_text |-> text, mapped |-> otags]
    /\ org' = build_org_profile(text, otags)
    /\ UNCHANGED <<settings, embFiles, grant, match, grantsDir, recOut,
                   mapEnv, mapCall, mapOut, batch, merge, synOut>>

\* The profile is built, then scored.
NextOrg ==
    \/ \E text \in OrgTexts : \E otags \in MappedOrgTypes :
          BuildOrgProfile(text, otags)
    \/ build # NoResult /\ ScoreMatch

SpecOrg == InitOrg /\ [][NextOrg]_vars

\* ------------------------------------------------------------------------
\* pipeline/build_synonyms.py
\* ------------------------------------------------------------------------
\* The strings of this section hold no parenthesis, no " and ", no " & ",
\* and none of the words postdoctoral, preproposal, organization, Pre-K,
\* afterschool, after-school, out-of-school, districtwide, statewide:
\* _paren_acronym_variants, _and_amp_variants, _short_forms, _prek_variants,
\* _afterschool_variants and _districtwide_variants return [] on them.
NoVariants(s) == <<>>

\* _singularize, on the last atom of a token.
_singularize(token) ==
    CASE token = "students"  -> "student"
      [] token = "teachers"  -> "teacher"
      [] token = "districts" -> "district"
      [] token = "learners"  -> "learner"
      [] OTHER               -> token

\* _k12_variants: "k", an optional dash between optional white space, "12".
_k12_variants(s) ==
    IF \E i \in DOMAIN s :
          /\ LowerAtom(s[i]) = "k"
          /\ \/ i + 1 <= Len(s) /\ s[i + 1] = "12"
             \/ i + 2 <= Len(s) /\ s[i + 1] \in {"-", EnDash, " "} /\ s[i + 2] = "12"
    THEN << <<"K", "-", "12">>, <<"K", EnDash, "12">>, <<"K", "12">>,
            <<"K", " ", "to", " ", "12">>, <<"K", " ", "through", " ", "12">> >>
    ELSE <<>>

\* _hyphen_space_variants: s.replace("-", " ") when s holds a hyphen.
_hyphen_space_variants(s) ==
    IF \E i \in DOMAIN s : s[i] = "-"
    THEN << [i \in DOMAIN s |-> IF s[i] = "-" THEN " " ELSE s[i]] >>
    ELSE <<>>

\* _higher_ed_variants: "higher education" becomes "higher ed".
_higher_ed_variants(s) ==
    IF \E i \in DOMAIN s :
          /\ i + 2 <= Len(s)
          /\ LowerAtom(s[i]) = "higher" /\ s[i + 1] = " "
          /\ LowerAtom(s[i + 2]) = "education"
    THEN << [i \in DOMAIN s |->
               IF /\ i >= 3
                  /\ LowerAtom(s[i - 2]) = "higher" /\ s[i - 1] = " "
                  /\ LowerAtom(s[i]) = "education"
               THEN "ed"
               ELSE IF /\ i + 2 <= Len(s)
                       /\ LowerAtom(s[i]) = "higher" /\ s[i + 1] = " "
                       /\ LowerAtom(s[i + 2]) = "education"
                    THEN "higher" ELSE s[i]] >>
    ELSE <<>>

\* _singular_plural_variants: the last token of s.split() singularized.
_singular_plural_variants(s) ==
    IF s = <<>> THEN <<>>
    ELSE LET sg == _singularize(s[Len(s)])
         IN  IF sg # s[Len(s)] THEN << [s EXCEPT ![Len(s)] = sg] >> ELSE <<>>

\* The geography and red-flag expansions of generate_synonyms_for_tag.
Expansions(s, taxonomy_name) ==
    IF taxonomy_name = "geography_tags" /\ Lower(s) = <<"united", " ", "states">>
    THEN << <<"US">>, <<"U.S.">>, <<"USA">>, <<"U.S.A.">> >>
    ELSE <<>>

\* The deduplication loop: a synonym is kept if it is not empty, differs
\* from the tag when both are lower-cased, and was not seen before.
RECURSIVE DedupSynonyms(_, _, _)
DedupSynonyms(out, syns, s) ==
    IF syns = <<>> THEN out
    ELSE LET syn == Head(syns)
         IN  DedupSynonyms(IF /\ syn # <<>>
                              /\ Lower(syn) # Lower(s)
                              /\ syn \notin Range(out)
                           THEN Append(out, syn) ELSE out,
                           Tail(syns), s)

\* generate_synonyms_for_tag(tag, taxonomy_name)
generate_synonyms_for_tag(tag, taxonomy_name) ==
    DedupSynonyms(<<>>,
        NoVariants(tag) \o _k12_variants(tag) \o NoVariants(tag)
          \o _hyphen_space_variants(tag) \o NoVariants(tag) \o NoVariants(tag)
          \o NoVariants(tag) \o NoVariants(tag) \o _higher_ed_variants(tag)
          \o _singular_plural_variants(tag) \o Expansions(tag, taxonomy_name),
        tag)

\* syns[:max_per_tag]
FirstSynonyms(syns, max_per_tag) ==
    SubSeq(syns, 1, IF max_per_tag < Len(syns) THEN max_per_tag ELSE Len(syns))

\* for syn in syns[:max_per_tag]: out_map[syn] = tag
RECURSIVE PutAll(_, _, _)
PutAll(out_map, syns, tag) ==
    IF syns = <<>> THEN out_map
    ELSE PutAll(DictPut(out_map, Head(syns), tag), Tail(syns), tag)

\* The loop of build_for_taxonomy over the tags of the list.
RECURSIVE OutMap(_, _, _, _)
OutMap(out_map, tags, name, max_per_tag) ==
    IF tags = <<>> THEN out_map
    ELSE OutMap(PutAll(out_map,
                       FirstSynonyms(generate_synonyms_for_tag(Head(tags), name),
                                     max_per_tag),
                       Head(tags)),
                Tail(tags), name, max_per_tag)

\* build_for_taxonomy(name, max_per_tag): the map written to
\* <name>_synonyms.auto.json.
build_for_taxonomy(tags, name, max_per_tag) == OutMap(<<>>, tags, name, max_per_tag)

\* The tag lists: up to MaxListTags tags of a population or a geography
\* taxonomy, in any order, without repetition.
MaxListTags == 3

ListTags(name) ==
    IF name = "geography_tags"
    THEN { <<"United", " ", "States">>, <<"us", "_", "national">>,
           <<"K", "-", "12", " ", "districts">> }
    ELSE { <<"K", "-", "12", " ", "students">>, <<"K", "-", "12", " ", "teachers">>,
           <<"school", " ", "districts">>, <<"school", " ", "district">>,
           <<"higher", " ", "education", " ", "learners">> }

TagLists(name) ==
    {l \in SeqsUpTo(ListTags(name), MaxListTags) :
        \A i, j \in DOMAIN l : i # j => l[i] # l[j]}

\* --max of the command line.
MaxPerTagArgs == {1, 6, 10}

InitSyn ==
    /\ settings = DefaultSettings
    /\ embFiles = <<>>
    /\ org = Profile(NoTags)
    /\ grant = Profile(NoTags)
    /\ match = NoResult
    /\ grantsDir = <<>>
    /\ recOut = NoResult
    /\ mapEnv = NoResult
    /\ mapCall = NoResult
    /\ mapOut = NoResult
    /\ batch = NoResult
    /\ merge = NoResult
    /\ build = NoResult
    /\ \E name \in {"population_tags", "geography_tags"} :
          synOut \in [done : {FALSE}, name : {name}, tags : TagLists(name),
                      max_per_tag : {0}, out_map : { <<>> }]

\* build_for_taxonomy(name, max_per_tag) on the tag list.
BuildForTaxonomy(max_per_tag) ==
    /\ ~synOut.done
    /\ synOut' = [synOut EXCEPT !.done = TRUE, !.max_per_tag = max_per_tag,
                     !.out_map = build_for_taxonomy(synOut.tags, synOut.name,
                                                    max_per_tag)]
    /\ UNCHANGED <<settings, embFiles, org, grant, match, grantsDir, recOut,
                   mapEnv, mapCall, mapOut, batch, merge, build>>

\* The map of a taxonomy is written by one call.
NextSyn == \E max_per_tag \in MaxPerTagArgs : BuildForTaxonomy(max_per_tag)

SpecSyn == InitSyn /\ [][NextSyn]_vars

\* ------------------------------------------------------------------------
\* Properties of the scorer (checked under Spec)
\* ------------------------------------------------------------------------
OrgTags(k)   == _tag_set(org, k)
GrantTags(k) == _tag_set(grant, k)
OrgTagSet    == [k \in Range(TAX_KEYS) |-> OrgTags(k)]
GrantTagSet  == [k \in Range(TAX_KEYS) |-> GrantTags(k)]

\* A red flag of the grant has a configured rule with a non-empty required
\* set that the org's org-type tags do not intersect.
HardBlockFires ==
    \E rf \in GrantTags("red_flag_tags") :
        /\ rf \in DOMAIN settings.MATCH_HARD_BLOCKS
        /\ settings.MATCH_HARD_BLOCKS[rf] # {}
        /\ settings.MATCH_HARD_BLOCKS[rf] \cap OrgTags("org_type_tags") = {}

ReasonKinds == {match.reasons[i].kind : i \in DOMAIN match.reasons}

\* C1: when a hard-block rule fires, the result is score 0.0, bucket Avoid
\* and exactly one reason, the hard-block line, whatever the overlaps, the
\* weights and the thresholds are.
C1_HardBlockPrecedence ==
    (match.done /\ HardBlockFires) =>
        /\ match.score = 0
        /\ match.bucket = "Avoid"
        /\ Len(match.reasons) = 1
        /\ match.reasons[1].kind = "Hard block due to red flags"

\* A hard-blocked pair whose mission and org-type tags would otherwise score.
C1_Witness ==
    /\ match.done
    /\ HardBlockFires
    /\ OrgTags("mission_tags") \cap GrantTags("mission_tags") # {}
    /\ OrgTags("org_type_tags") \cap GrantTags("org_type_tags") # {}
    /\ settings.MATCH_APPLY_THRESHOLD < settings.MATCH_MAYBE_THRESHOLD

ScenarioState ==
    /\ settings.MATCH_WEIGHTS = [mission_tags |-> 50, population_tags |-> 40,
                                 geography_tags |-> 10, org_type_tags |-> 40]
    /\ settings.MATCH_APPLY_THRESHOLD = 60
    /\ OrgTagSet = ScenarioOrgTags
    /\ GrantTagSet = ScenarioGrantTags

\* C7: the scenario scores 1.0, bucket Apply, with a mission-overlap line and
\* an org-type-ok line and neither a geography nor a red-flag line.
C7_Scenario ==
    (match.done /\ ScenarioState) =>
        /\ match.score = 1000
        /\ match.bucket = "Apply"
        /\ "Mission overlap" \in ReasonKinds
        /\ "Org type ok" \in ReasonKinds
        /\ "Geography overlap" \notin ReasonKinds
        /\ "Red flags" \notin ReasonKinds

\* The scenario scored against a table that holds a vector for its mission tag.
C7_Witness ==
    /\ match.done
    /\ ScenarioState
    /\ embFiles.mission_tags.json
    /\ "STEM education" \in DOMAIN embFiles.mission_tags.table

\* The returned score is the weighted sum rounded to 3 decimals.
ScoreIsRounded ==
    LET unit == ScoreOne \div 1000
        raw  == RawScore(OrgTagSet, GrantTagSet)
        d    == match.score * unit - raw
    IN  2 * d <= unit /\ 2 * d >= -unit

\* C9 as stated: the bucket is Apply iff score >= apply, Maybe iff
\* maybe <= score < apply, Avoid iff score < maybe.
C9_Original ==
    (match.done /\ ~HardBlockFires) =>
        LET apply == settings.MATCH_APPLY_THRESHOLD * 10
            maybe == settings.MATCH_MAYBE_THRESHOLD * 10
        IN  /\ ScoreIsRounded
            /\ match.bucket = "Apply" <=> match.score >= apply
            /\ match.bucket = "Maybe" <=> (maybe <= match.score /\ match.score < apply)
            /\ match.bucket = "Avoid" <=> match.score < maybe

\* C9 (amended): for a pair that is not hard-blocked the score is rounded to
\* 3 decimals and the bucket is computed from the rounded score: Apply iff
\* score >= apply; Maybe iff score < apply and score >= maybe; Avoid iff
\* score < apply and score < maybe.  Exactly one bucket is returned.
C9_Bucketing ==
    (match.done /\ ~HardBlockFires) =>
        LET apply == settings.MATCH_APPLY_THRESHOLD * 10
            maybe == settings.MATCH_MAYBE_THRESHOLD * 10
        IN  /\ ScoreIsRounded
            /\ match.bucket \in {"Apply", "Maybe", "Avoid"}
            /\ match.bucket = "Apply" <=> match.score >= apply
            /\ match.bucket = "Maybe" <=> (match.score < apply /\ match.score >= maybe)
            /\ match.bucket = "Avoid" <=> (match.score < apply /\ match.score < maybe)

\* A pair whose unrounded score lies below the apply threshold and whose
\* rounded score reaches it.
C9_Witness ==
    /\ match.done
    /\ ~HardBlockFires
    /\ match.bucket = "Apply"
    /\ match.score = settings.MATCH_APPLY_THRESHOLD * 10
    /\ RawScore(OrgTagSet, GrantTagSet) < match.score * (ScoreOne \div 1000)

\* ------------------------------------------------------------------------
\* Properties of recommend (checked under SpecRec)
\* ------------------------------------------------------------------------
\* Record a comes before record b in the ranking: a higher score (a record
\* without a score counts as 0.0), or the same score and an earlier file.
RankedBefore(a, b) ==
    \/ SortKey(a) > SortKey(b)
    \/ SortKey(a) = SortKey(b) /\ a.grant_profile < b.grant_profile

RankOf(r) ==
    Cardinality({j \in DOMAIN recOut.recs : RankedBefore(recOut.recs[j], r)}) + 1

\* C10: every grant is scored on its own; the records come sorted by score
\* descending, equal scores in the order of the sorted file names; a
\* positive top N returns the first min(N, number of records) records of
\* that order and top = 0 returns them all.
C10_Ranking ==
    recOut.done =>
        LET recs == recOut.recs
            out  == recOut.recommendations
            n    == Len(grantsDir)
        IN  /\ Len(recs) = n
            /\ \A i \in 1..n :
                  /\ recs[i].grant_profile = i
                  /\ grantsDir[i].json =>
                        [score |-> recs[i].score, bucket |-> recs[i].bucket,
                         reasons |-> recs[i].reasons]
                            \in _score_and_reasons(org, grantsDir[i].data)
            /\ recOut.top >= 0 =>
                  /\ Len(out) = IF recOut.top = 0 \/ recOut.top > n
                                THEN n ELSE recOut.top
                  /\ \A i \in 1..Len(out) :
                        out[i] \in Range(recs) /\ RankOf(out[i]) = i

\* A truncated ranking in which a later file outranks an earlier one and two
\* scored files tie.
C10_Witness ==
    /\ recOut.done
    /\ recOut.top > 0
    /\ recOut.top < Len(grantsDir)
    /\ Len(recOut.recommendations) >= 2
    /\ recOut.recommendations[1].grant_profile > 1
    /\ \E i, j \in DOMAIN recOut.recs :
          /\ i < j
          /\ grantsDir[i].json /\ grantsDir[j].json
          /\ recOut.recs[i].score = recOut.recs[j].score
          /\ recOut.recs[i].score > 0
          /\ recOut.recs[i] \in Range(recOut.recommendations)
          /\ recOut.recs[j] \in Range(recOut.recommendations)

\* ------------------------------------------------------------------------
\* Properties of the mapper (checked under SpecMap)
\* ------------------------------------------------------------------------
\* The call has returned a result.
MapReturned == mapOut.done /\ ~mapOut.raises

\* The entry of the merged dictionary for the phrase ("" when none).
DictionaryEntry(P) == DictGet(DirectMap, _normalize_text(P), <<>>)

HasAssignment(out, T, c) ==
    \E i \in DOMAIN out.deduped :
        out.deduped[i].tag = T /\ out.deduped[i].confidence = c

StrictThreshold ==
    IF mapCall.similarity_threshold = NoneArg
    THEN _threshold_for_taxonomy(mapEnv.taxonomy)
    ELSE mapCall.similarity_threshold

RaisedThresholds == {s \in ThresholdArgs \ {NoneArg} : s > StrictThreshold}

\* The same call with the strict threshold s.
CallAt(s) ==
    map_phrases_to_canonical(mapCall.extracted_phrases, mapEnv.taxonomy, s,
                             mapCall.top_k)

SimilarityCount(per, i) == IF per[i].hit THEN 0 ELSE Len(per[i].items)

SimilarityTags(per) ==
    UNION {{per[i].items[j].tag : j \in DOMAIN per[i].items} :
             i \in {n \in DOMAIN per : ~per[n].hit}}

NeverMore(low, high) ==
    /\ \A i \in DOMAIN low :
          SimilarityCount(high, i) <= SimilarityCount(low, i)
    /\ Cardinality(SimilarityTags(high)) <= Cardinality(SimilarityTags(low))

\* C3 as stated: raising the strict threshold never increases the number
\* of similarity-based assignments, per phrase before deduplication and
\* per tag after it.
C3_Original ==
    MapReturned =>
        \A s \in RaisedThresholds : \A raised \in {CallAt(s)} :
            NeverMore(mapOut.per_phrase, raised.per_phrase)

\* C3 as amended: the same, when the taxonomy is top-1 gated or its loose
\* threshold is not below the lower strict threshold.
C3_Monotone ==
    (/\ MapReturned
     /\ \/ mapEnv.taxonomy \in settings.TOP1_TAXONOMIES
        \/ _loose_threshold_for_taxonomy(mapEnv.taxonomy) >= StrictThreshold)
    => \A s \in RaisedThresholds : \A raised \in {CallAt(s)} :
            NeverMore(mapOut.per_phrase, raised.per_phrase)

\* Under the amended condition, at the raised threshold some phrase gets an
\* assignment below that threshold, from the loose pass, and fewer
\* assignments than at the lower threshold or as many.
C3_Witness ==
    /\ MapReturned
    /\ \/ mapEnv.taxonomy \in settings.TOP1_TAXONOMIES
       \/ _loose_threshold_for_taxonomy(mapEnv.taxonomy) >= StrictThreshold
    /\ \E s \in RaisedThresholds : \E raised \in {CallAt(s)} :
          \E i \in DOMAIN raised.per_phrase :
              /\ ~raised.per_phrase[i].hit
              /\ raised.per_phrase[i].items # <<>>
              /\ raised.per_phrase[i].items[1].confidence < s
              /\ SimilarityCount(mapOut.per_phrase, i) >= 1

\* C4: in a top-1 taxonomy every phrase of the list contributes at most one
\* assignment to the results before deduplication.
C4_Top1Gating ==
    (MapReturned /\ mapEnv.taxonomy \in settings.TOP1_TAXONOMIES)
    => /\ \A i \in DOMAIN mapOut.per_phrase : Len(mapOut.per_phrase[i].items) <= 1
       /\ Len(mapOut.results) <= Len(mapCall.extracted_phrases)

\* In a top-1 taxonomy a phrase with two allowed candidates at or above the
\* strict threshold, both within top_k, got one assignment.
C4_Witness ==
    /\ MapReturned
    /\ mapEnv.taxonomy \in settings.TOP1_TAXONOMIES
    /\ mapCall.top_k = NoneArg
    /\ \E i \in DOMAIN mapOut.per_phrase :
          LET P == mapCall.extracted_phrases[i]
              table == load_embeddings(embFiles[mapEnv.taxonomy]).emb
          IN  /\ ~mapOut.per_phrase[i].hit
              /\ Len(mapOut.per_phrase[i].items) = 1
              /\ Cardinality({T \in DOMAIN table :
                    /\ ClearsThreshold(cosine_similarity(PhraseVec(P), table[T]),
                                       StrictThreshold)
                    /\ _allow_mapping(mapEnv.taxonomy, P, T)}) >= 2

\* The assignments of the results for a tag, and their best confidence.
Contributions(T) == {i \in DOMAIN mapOut.results : mapOut.results[i].tag = T}

MappedTags == {mapOut.results[i].tag : i \in DOMAIN mapOut.results}

BestConfidence(T) ==
    CHOOSE c \in {mapOut.results[i].confidence : i \in Contributions(T)} :
        \A i \in Contributions(T) : c >= mapOut.results[i].confidence

NoDuplicates(seq) == \A i, j \in DOMAIN seq : seq[i] = seq[j] => i = j

\* One assignment for the tag, with the best confidence and a source_text
\* that achieved it, and sources without duplicates.
OneBestAssignment(T) ==
    /\ Cardinality({i \in DOMAIN mapOut.deduped : mapOut.deduped[i].tag = T}) = 1
    /\ \A i \in DOMAIN mapOut.deduped :
          mapOut.deduped[i].tag = T =>
              /\ mapOut.deduped[i].confidence = BestConfidence(T)
              /\ \E j \in Contributions(T) :
                    /\ mapOut.results[j].confidence = BestConfidence(T)
                    /\ mapOut.results[j].source_text = mapOut.deduped[i].source_text
              /\ NoDuplicates(mapOut.deduped[i].sources)

SourcesOf(T) ==
    UNION {Range(mapOut.deduped[i].sources) :
             i \in {n \in DOMAIN mapOut.deduped : mapOut.deduped[n].tag = T}}

\* C5 as stated: every mapped tag has exactly one assignment, with the
\* maximum confidence, a source_text that achieved it, and sources holding
\* every contributing phrase exactly once.
C5_Original ==
    MapReturned =>
        \A T \in MappedTags :
            /\ OneBestAssignment(T)
            /\ SourcesOf(T) = {mapOut.results[i].source_text : i \in Contributions(T)}

\* C5 as amended: the same, with sources holding every non-empty
\* contributing phrase exactly once.
C5_Dedup ==
    MapReturned =>
        /\ \A T \in MappedTags :
              /\ OneBestAssignment(T)
              /\ SourcesOf(T) = {mapOut.results[i].source_text :
                                   i \in Contributions(T)} \ {EmptyPhrase}
        /\ \A i \in DOMAIN mapOut.deduped : mapOut.deduped[i].tag \in MappedTags

\* Two different non-empty phrases were mapped to one tag, the later with
\* the higher confidence.
C5_Witness ==
    /\ MapReturned
    /\ \E T \in MappedTags : \E i, j \in Contributions(T) :
          /\ i < j
          /\ mapOut.results[i].confidence < mapOut.results[j].confidence
          /\ mapOut.results[i].source_text # mapOut.results[j].source_text
          /\ mapOut.results[i].source_text # EmptyPhrase
          /\ mapOut.results[j].source_text # EmptyPhrase
          /\ HasAssignment(mapOut, T, mapOut.results[j].confidence)

\* ------------------------------------------------------------------------
\* Reasons (checked under Spec)
\* ------------------------------------------------------------------------
\* The kinds of the reason lines in their fixed order, with the taxonomy
\* each one reports.
ReasonOrder ==
    << [kind |-> "Mission overlap", key |-> "mission_tags"],
       [kind |-> "Population overlap", key |-> "population_tags"],
       [kind |-> "Org type ok", key |-> "org_type_tags"],
       [kind |-> "Geography overlap", key |-> "geography_tags"],
       [kind |-> "Red flags", key |-> "red_flag_tags"] >>

ReasonPosition(kind) ==
    CHOOSE n \in DOMAIN ReasonOrder : ReasonOrder[n].kind = kind

\* The reasons are lines of the known kinds in strictly increasing position.
ReasonsInFixedOrder ==
    /\ \A i \in DOMAIN match.reasons :
          \E n \in DOMAIN ReasonOrder : ReasonOrder[n].kind = match.reasons[i].kind
    /\ \A i, j \in DOMAIN match.reasons :
          i < j => ReasonPosition(match.reasons[i].kind)
                     < ReasonPosition(match.reasons[j].kind)

\* A line of the kind is present iff the tag set is non-empty, and names it.
LineIffTags(kind, tags) ==
    /\ (kind \in ReasonKinds) <=> (tags # {})
    /\ \A i \in DOMAIN match.reasons :
          match.reasons[i].kind = kind => match.reasons[i].tags = tags

ExactIntersection(key) == OrgTags(key) \cap GrantTags(key)

\* C11 as stated: for a pair that is not hard-blocked the reasons follow
\* the fixed order and each of the five taxonomies has a line iff the exact
\* intersection of the org's and the grant's tags is non-empty, naming
\* exactly that intersection.
C11_Original ==
    (match.done /\ ~HardBlockFires) =>
        /\ ReasonsInFixedOrder
        /\ \A n \in DOMAIN ReasonOrder :
              LineIffTags(ReasonOrder[n].kind, ExactIntersection(ReasonOrder[n].key))

\* C11 as amended: the same for mission, population, org-type and
\* geography; the red-flags line is present iff the grant has a red-flag
\* tag and names all the red-flag tags of the grant.
C11_Reasons ==
    (match.done /\ ~HardBlockFires) =>
        /\ ReasonsInFixedOrder
        /\ \A n \in 1..4 :
              LineIffTags(ReasonOrder[n].kind, ExactIntersection(ReasonOrder[n].key))
        /\ LineIffTags("Red flags", GrantTags("red_flag_tags"))

\* A pair scored through the geography superset rule and with a mission
\* line and a red-flags line: the geography tags do not intersect and no
\* geography line is given.
C11_Witness ==
    /\ match.done
    /\ ~HardBlockFires
    /\ OrgTags("geography_tags") # {}
    /\ "us_national" \in GrantTags("geography_tags")
    /\ ExactIntersection("geography_tags") = {}
    /\ ExactIntersection("mission_tags") # {}
    /\ GrantTags("red_flag_tags") # {}
    /\ ReasonKinds = {"Mission overlap", "Red flags"}

\* ------------------------------------------------------------------------
\* Failures of the mapper (checked under SpecMap)
\* ------------------------------------------------------------------------
\* The embeddings table of the taxonomy was loaded.
TableLoaded == ~load_embeddings(embFiles[mapEnv.taxonomy]).raises

\* The phrase is resolved by the dictionary step.
IsDictionaryHit(P) ==
    /\ DictionaryEntry(P) # <<>>
    /\ _allow_mapping(mapEnv.taxonomy, P, DictionaryEntry(P))

\* The embedding call of the similarity fallback fails for the phrase.
EmbeddingFails(P) == ~IsDictionaryHit(P) /\ embed_text(P).raises

\* C12: when the table is loaded and the embedding call fails for a phrase
\* of the list, the call still returns, and its result holds the dictionary
\* hit of every phrase of the list that has one.
C12_FailureIsolation ==
    (/\ mapOut.done
     /\ TableLoaded
     /\ \E i \in DOMAIN mapCall.extracted_phrases :
           EmbeddingFails(mapCall.extracted_phrases[i]))
    => /\ ~mapOut.raises
       /\ \A i \in DOMAIN mapCall.extracted_phrases :
             IsDictionaryHit(mapCall.extracted_phrases[i])
                => HasAssignment(mapOut, DictionaryEntry(mapCall.extracted_phrases[i]),
                                 10000)

\* C13: when the embeddings file of the taxonomy is absent the call raises
\* the not-found error of the loader, whatever the phrases and the
\* provider are, and returns no result.
C13_MissingEmbeddingsFatal ==
    (mapOut.done /\ ~embFiles[mapEnv.taxonomy].exists)
    => /\ mapOut.raises
       /\ mapOut.error = "FileNotFoundError"
       /\ mapOut.results = <<>>
       /\ mapOut.deduped = <<>>

\* The file is absent, the list is not empty and every phrase of it is a
\* dictionary hit.
C13_Witness ==
    /\ mapOut.done
    /\ ~embFiles[mapEnv.taxonomy].exists
    /\ mapCall.extracted_phrases # <<>>
    /\ \A i \in DOMAIN mapCall.extracted_phrases :
          IsDictionaryHit(mapCall.extracted_phrases[i])
    /\ mapOut.raises

\* The entry of the loaded synonym files for the phrase ("" when none).
SynonymEntry(P) ==
    DictGet(_load_synonyms_map(mapEnv.synDir), _normalize_text(P), <<>>)

\* The tag list is absent and the embeddings table is loaded.
ListMissing == mapOut.done /\ ~mapEnv.tagList.exists /\ TableLoaded

NoEmbeddingFails ==
    \A i \in DOMAIN mapCall.extracted_phrases :
        ~EmbeddingFails(mapCall.extracted_phrases[i])

Filled(profile) ==
    [canonical_tags |->
        [k \in Range(TAX_KEYS) |->
            IF "canonical_tags" \in DOMAIN profile
            THEN IF k \in DOMAIN profile.canonical_tags
                 THEN profile.canonical_tags[k] ELSE <<>>
            ELSE <<>>]]

LacksKeys(profile) == Filled(profile) # profile

\* C15: the result for profiles that lack canonical_tags or taxonomy keys
\* is a result for the same profiles with those keys present and empty, and
\* the two have the same possible results.
C15_MissingKeys ==
    match.done =>
        /\ \E r \in _score_and_reasons(Filled(org), Filled(grant)) :
              /\ r.score = match.score
              /\ r.bucket = match.bucket
              /\ r.reasons = match.reasons
        /\ _score_and_reasons(org, grant)
              = _score_and_reasons(Filled(org), Filled(grant))

\* An org without its population key and a grant without canonical keys
\* for its empty taxonomies are scored above zero and with a reason.
C15_Witness ==
    /\ match.done
    /\ "canonical_tags" \in DOMAIN org
    /\ "population_tags" \notin DOMAIN org.canonical_tags
    /\ LacksKeys(grant)
    /\ match.score > 0
    /\ match.reasons # <<>>

\* ------------------------------------------------------------------------
\* Batch runs (checked under SpecBatch)
\* ------------------------------------------------------------------------
\* The input files of the run, in the order of the loop.
BatchInputs == IF batch.dir_exists THEN Glob(batch.dir, batch.ext) ELSE <<>>

ReportsOf(name) == {j \in DOMAIN batch.reports : batch.reports[j].file = name}

StatusCount(status) ==
    Cardinality({j \in DOMAIN batch.reports : batch.reports[j].status = status})

\* Every file the loop has passed has one report, a success if its profile
\* was built and a failure if building it raised; the counts are the
\* numbers of those reports.
ReportedSoFar(n) ==
    /\ Len(batch.reports) = n
    /\ \A j \in 1..n :
          /\ batch.reports[j].file = BatchInputs[j].name
          /\ batch.reports[j].status =
                (IF BatchInputs[j].raises THEN "error" ELSE "ok")
    /\ batch.ok = StatusCount("ok")
    /\ batch.fail = StatusCount("error")
    /\ batch.ok + batch.fail = n

RecordsOf(i) ==
    {j \in DOMAIN recOut.recommendations :
        recOut.recommendations[j].grant_profile = i}

\* One record per file of the grants directory, an error record for a file
\* that does not load.
OneRecordEach ==
    /\ Len(recOut.recs) = Len(grantsDir)
    /\ \A i \in DOMAIN grantsDir :
          /\ recOut.recs[i].grant_profile = i
          /\ ("error" \in DOMAIN recOut.recs[i]) = ~grantsDir[i].json

\* C16 as stated: every input is reported once, as a success or a failure;
\* the counts sum to the number of input files; the exit code is 0 exactly
\* when no item failed; recommend reports every file of the directory.
C16_Original ==
    /\ batch.done =>
          /\ ReportedSoFar(Len(BatchInputs))
          /\ (batch.exit_code = 0) = (batch.fail = 0)
    /\ recOut.done =>
          /\ OneRecordEach
          /\ \A i \in DOMAIN grantsDir : Cardinality(RecordsOf(i)) = 1

\* C16 (amended): a builder that finds its input directory attempts every
\* input once, whatever failed before it, reports it as a success or a
\* failure, ends with ok + failed = number of inputs and exits 0 exactly
\* when nothing failed; without the directory it exits 1 with nothing
\* attempted.  recommend makes one record per file, an error record for a
\* file that fails, and returns every record when top = 0 and the first
\* min(top, number of files) records of its ranking when top > 0.
C16_BatchIsolation ==
    /\ batch.pc = "loop" => ReportedSoFar(batch.i - 1)
    /\ (batch.done /\ batch.dir_exists) =>
          /\ ReportedSoFar(Len(BatchInputs))
          /\ (batch.exit_code = 0) = (batch.fail = 0)
    /\ (batch.done /\ ~batch.dir_exists) =>
          /\ batch.exit_code = 1
          /\ batch.reports = <<>>
    /\ recOut.done =>
          /\ OneRecordEach
          /\ \A i \in DOMAIN grantsDir : Cardinality(RecordsOf(i)) <= 1
          /\ \A j \in DOMAIN recOut.recommendations :
                recOut.recommendations[j] \in Range(recOut.recs)
          /\ recOut.top = 0 =>
                Len(recOut.recommendations) = Len(grantsDir)
          /\ recOut.top > 0 =>
                Len(recOut.recommendations) =
                   (IF recOut.top < Len(grantsDir) THEN recOut.top
                    ELSE Len(grantsDir))

\* A builder went on after its first input failed and exited 1; recommend
\* returned the record of a file after the error record of a broken one.
C16_Witness ==
    /\ batch.done
    /\ Len(batch.reports) >= 2
    /\ batch.reports[1].status = "error"
    /\ batch.reports[2].status = "ok"
    /\ batch.exit_code = 1
    /\ recOut.done
    /\ Len(grantsDir) = 2
    /\ ~grantsDir[1].json
    /\ grantsDir[2].json
    /\ Len(recOut.recommendations) = 2

\* ------------------------------------------------------------------------
\* Output files of a batch run (checked under SpecBatch)
\* ------------------------------------------------------------------------
WritesOf(name) == {j \in DOMAIN batch.written : batch.written[j].input = name}

\* The input whose profile the path holds: the last one written there.
HolderOf(path) ==
    LET at == {j \in DOMAIN batch.written : batch.written[j].path = path}
        last == CHOOSE j \in at : \A k \in at : k <= j
    IN  batch.written[last].input

\* C19: in a run with --all no two inputs write to the same output path:
\* every input reported ok was written once, to a path that still holds
\* its profile, whatever the options (--grant-id / --org-id, --ext).
C19_PrivateOutputs ==
    /\ \A j, k \in DOMAIN batch.written :
          batch.written[j].path = batch.written[k].path => j = k
    /\ \A r \in DOMAIN batch.reports :
          batch.reports[r].status = "ok" =>
             /\ Cardinality(WritesOf(batch.reports[r].file)) = 1
             /\ HolderOf(batch.reports[r].out) = batch.reports[r].file

\* ------------------------------------------------------------------------
\* Merged synonyms (checked under SpecMerge)
\* ------------------------------------------------------------------------
\* What the curated file alone resolves to before the merge.
CuratedMap ==
    _load_synonyms_map(SynDirOf([manual |-> merge.before.manual,
                                 auto |-> MapFile(FALSE, FALSE, <<>>)]))

\* The normalized strings the curated file and the auto file both hold,
\* with different tags.
Conflicts ==
    {n \in DOMAIN CuratedMap :
        \E i \in DOMAIN merge.before.auto.entries :
            /\ _normalize_text(merge.before.auto.entries[i][1]) = n
            /\ merge.before.auto.entries[i][2] # CuratedMap[n]}

\* C17: after merge_for_taxonomy and a load, every normalized string that
\* the curated and the auto source give different tags resolves to the
\* curated tag.
C17_CuratedPrecedence ==
    (merge.done /\ merge.returned /\ merge.loaded.done /\ merge.loaded.merged) =>
        \A n \in Conflicts :
            /\ n \in DOMAIN merge.loaded.map
            /\ merge.loaded.map[n] = CuratedMap[n]

\* ------------------------------------------------------------------------
\* Guardrails (checked under SpecMap)
\* ------------------------------------------------------------------------
\* The phrases an assignment records: its source_text and its sources.
RecordedPhrases(item) == {item.source_text} \cup Range(item.sources)

\* C18: every returned assignment, from the dictionary or from similarity,
\* satisfies the guardrail of the taxonomy for each phrase it records: no
\* phrase with audience vocabulary is a source of an org_types assignment
\* and every source of a red_flag_tags assignment holds a requirement cue.
C18_Guardrail ==
    MapReturned =>
        \A i \in DOMAIN mapOut.deduped :
            \A P \in RecordedPhrases(mapOut.deduped[i]) :
                /\ _allow_mapping(mapEnv.taxonomy, P, mapOut.deduped[i].tag)
                /\ mapEnv.taxonomy = "org_types" => ~SearchWords(P, AudienceLike)
                /\ mapEnv.taxonomy = "red_flag_tags" => SearchWords(P, RedflagGate)

\* The guardrail refused a phrase of the call its dictionary entry, the
\* phrase is a source of no assignment, and the call returned assignments.
C18_Witness ==
    /\ MapReturned
    /\ mapEnv.taxonomy \in {"org_types", "red_flag_tags"}
    /\ mapOut.deduped # <<>>
    /\ \E i \in DOMAIN mapCall.extracted_phrases :
          LET P == mapCall.extracted_phrases[i]
          IN  /\ DictionaryEntry(P) # <<>>
              /\ ~_allow_mapping(mapEnv.taxonomy, P, DictionaryEntry(P))
              /\ \A j \in DOMAIN mapOut.deduped :
                    P \notin RecordedPhrases(mapOut.deduped[j])

\* ------------------------------------------------------------------------
\* Candidates of the similarity fallback (checked under SpecMap)
\* ------------------------------------------------------------------------
\* k of the call, with the default resolved.
TopKOfCall ==
    IF mapCall.top_k = NoneArg
    THEN DictGet(settings.TOP_K_BY_TAXONOMY, mapEnv.taxonomy, settings.TOP_K)
    ELSE mapCall.top_k

LoadedTable == load_embeddings(embFiles[mapEnv.taxonomy]).emb

\* score is the cosine of the two vectors: score * |a| * |b| = a . b
IsCosineOf(score, a, b) ==
    score.num * VecNorm(a) * VecNorm(b) = VecDot(a, b) * score.den

\* Tag t of vector a ranks before tag u of vector b for the phrase vector
\* P: its cosine to P is higher, or the same and t sorts before u.
RanksBefore(t, a, u, b, P) ==
    LET dt == VecDot(P, a) * VecNorm(b)
        du == VecDot(P, b) * VecNorm(a)
    IN  \/ dt > du
        \/ dt = du /\ TagRank(mapEnv.taxonomy, t) < TagRank(mapEnv.taxonomy, u)

PhraseAt(i) == mapCall.extracted_phrases[i]

\* C21: a phrase whose normalized form is a key of the dictionary never
\* reaches similarity scoring: top_k_matches is not called for it, so no
\* embedding call can fail for it, and its only assignment, if any, is the
\* dictionary hit, whatever the guardrail decides.
C21_DictionaryBypass ==
    /\ MapReturned =>
          \A i \in DOMAIN mapOut.per_phrase :
              DictionaryEntry(PhraseAt(i)) # <<>> =>
                  /\ mapOut.per_phrase[i].candidates = <<>>
                  /\ \A j \in DOMAIN mapOut.per_phrase[i].items :
                        /\ mapOut.per_phrase[i].items[j].tag = DictionaryEntry(PhraseAt(i))
                        /\ mapOut.per_phrase[i].items[j].confidence = 10000
    /\ (mapOut.done /\ mapOut.error = "ProviderError") =>
          \E i \in DOMAIN mapCall.extracted_phrases :
              DictionaryEntry(PhraseAt(i)) = <<>>

\* ------------------------------------------------------------------------
\* The loose pass (checked under SpecMap)
\* ------------------------------------------------------------------------
\* The candidates the passes of the phrase look at: the first one under the
\* top-1 gate, all of them otherwise.
Considered(i) ==
    LET c == mapOut.per_phrase[i].candidates
    IN  IF mapEnv.taxonomy \in settings.TOP1_TAXONOMIES /\ c # <<>>
        THEN {c[1]} ELSE Range(c)

ClearedStrict(i) == {c \in Considered(i) : ClearsThreshold(c.score, StrictThreshold)}

\* The score of the candidate an item of the phrase was made from clears
\* the threshold.
ItemClears(i, item, thresh) ==
    \E c \in Considered(i) :
        /\ c.tag = item.tag
        /\ Round4(c.score) = item.confidence
        /\ ClearsThreshold(c.score, thresh)

\* C22: when a candidate of a phrase cleared the strict threshold, the
\* loose pass is not run for the phrase even if the guardrail refused every
\* such candidate: nothing below the strict threshold is emitted for it.
\* When the loose threshold is not lower than the strict one nothing below
\* the strict threshold is emitted either.
C22_NoRetry ==
    MapReturned =>
        \A i \in DOMAIN mapOut.per_phrase :
            (/\ ~mapOut.per_phrase[i].hit
             /\ \/ ClearedStrict(i) # {}
                \/ _loose_threshold_for_taxonomy(mapEnv.taxonomy) >= StrictThreshold)
                => \A j \in DOMAIN mapOut.per_phrase[i].items :
                      ItemClears(i, mapOut.per_phrase[i].items[j], StrictThreshold)

\* ------------------------------------------------------------------------
\* Semantic overlap (checked under SpecSem)
\* ------------------------------------------------------------------------
\* The table of the taxonomy can be read.
TableAvailable(name) == embFiles[name].exists /\ embFiles[name].json

\* The similarity of two tags in hundredths: 1 for a tag and itself, the
\* cosine of their vectors when the table holds both, 0 otherwise.
TagSimilarity(name, ot, gt) ==
    LET table == embFiles[name].table
    IN  IF ot = gt THEN 100
        ELSE IF ot \in DOMAIN table /\ gt \in DOMAIN table
             THEN (VecDot(table[ot], table[gt]) * 100)
                      \div (VecNorm(table[ot]) * VecNorm(table[gt]))
             ELSE 0

\* The largest similarity of the org tag to a grant tag, 0 when it is below
\* the floor or there is no grant tag.
FlooredMax(name, ot, grant_tags) ==
    LET sims == {TagSimilarity(name, ot, gt) : gt \in grant_tags} \cup {0}
        best == CHOOSE s \in sims : \A u \in sims : u <= s
    IN  IF best >= settings.MATCH_TAX_SIM_THRESHOLD THEN best ELSE 0

\* The overlap the statement gives, in OverlapOne units.
StatedOverlap(name, org_tags, grant_tags) ==
    IF org_tags = {} THEN 0
    ELSE IF ~TableAvailable(name)
         THEN (Cardinality(org_tags \cap grant_tags) * OverlapOne)
                  \div Cardinality(org_tags)
         ELSE (SumOver([ot \in org_tags |-> FlooredMax(name, ot, grant_tags)],
                       org_tags) * OverlapDen) \div Cardinality(org_tags)

WeightedSum ==
    LET w == settings.MATCH_WEIGHTS
    IN  w.mission_tags
            * _semantic_overlap("mission_tags", OrgTags("mission_tags"),
                                GrantTags("mission_tags"))
        + w.population_tags
            * _semantic_overlap("population_tags", OrgTags("population_tags"),
                                GrantTags("population_tags"))
        + w.geography_tags
            * _geography_overlap(OrgTags("geography_tags"),
                                 GrantTags("geography_tags"))
        + w.org_type_tags
            * (IF OrgTags("org_type_tags") \cap GrantTags("org_type_tags") # {}
               THEN OverlapOne ELSE 0)

\* P in hundredths: the penalty for a grant with a red-flag tag, else 1.
PenaltyFactor ==
    IF GrantTags("red_flag_tags") # {} THEN settings.MATCH_RED_FLAG_PENALTY
    ELSE 100

\* C24: for a pair that is not hard-blocked the returned score is S * P
\* rounded to 3 decimals, S being the weighted sum of the mission and
\* population semantic overlaps, the geography overlap and the binary
\* org-type overlap, and P the red-flag penalty when the grant has a
\* red-flag tag and 1 otherwise, applied once to the sum; the bucket is
\* taken from that rounded score.
C24_ScoreComposition ==
    (match.done /\ ~HardBlockFires) =>
        LET unit == ScoreOne \div 1000
            d    == match.score * unit - WeightedSum * PenaltyFactor
        IN  /\ 2 * d <= unit
            /\ 2 * d >= -unit
            /\ match.bucket = Bucket(match.score)

\* A scored pair whose grant has a red flag that does not block the org,
\* with a positive sum: the penalty lowers the score.
C24_Witness ==
    /\ match.done
    /\ ~HardBlockFires
    /\ GrantTags("red_flag_tags") # {}
    /\ WeightedSum > 0
    /\ settings.MATCH_RED_FLAG_PENALTY < 100
    /\ match.score * (ScoreOne \div 1000) < WeightedSum * 100
    /\ OrgTags("mission_tags") \cap GrantTags("mission_tags") # {}
    /\ OrgTags("org_type_tags") \cap GrantTags("org_type_tags") # {}

\* ------------------------------------------------------------------------
\* Closed vocabulary (checked under SpecMap)
\* ------------------------------------------------------------------------
\* The canonical tag list of the taxonomy of the call.
CanonicalTags == Range(Taxonomy[mapEnv.taxonomy].tags)

\* C25: every tag in the output of map_phrases_to_canonical is a member of
\* the canonical tag list of the taxonomy, whatever the synonym files and
\* the embedding table contain.
C25_ClosedVocabulary ==
    MapReturned =>
        \A i \in DOMAIN mapOut.deduped : mapOut.deduped[i].tag \in CanonicalTags

\* ------------------------------------------------------------------------
\* Canonical names in the dictionary (checked under SpecMap)
\* ------------------------------------------------------------------------
\* The tags of the loaded list whose normalized name is the normalized phrase.
NamedBy(phrase) ==
    IF load_taxonomy_list(mapEnv.tagList).raises THEN {}
    ELSE {T \in Range(load_taxonomy_list(mapEnv.tagList).tags) :
             _normalize_text(T) = _normalize_text(phrase)}

\* C26: a phrase whose normalized form is the normalized name of a tag T of
\* the loaded list, and that the guardrail allows for T, is resolved by the
\* dictionary step to T with confidence 1.0, whatever the synonym files
\* contain.
C26_CanonicalNames ==
    MapReturned =>
        \A i \in DOMAIN mapOut.per_phrase :
            \A T \in NamedBy(PhraseAt(i)) :
                _allow_mapping(mapEnv.taxonomy, PhraseAt(i), T) =>
                    /\ mapOut.per_phrase[i].hit
                    /\ mapOut.per_phrase[i].items =
                           <<Assignment(T, PhraseAt(i), 10000)>>

\* ------------------------------------------------------------------------
\* The threshold of the call (checked under SpecMap)
\* ------------------------------------------------------------------------
\* C27: when the call passes similarity_threshold, no assignment made by
\* similarity has a score below it, for every taxonomy and loose threshold.
C27_ExplicitThreshold ==
    (MapReturned /\ mapCall.similarity_threshold # NoneArg) =>
        \A i \in DOMAIN mapOut.per_phrase :
            ~mapOut.per_phrase[i].hit =>
                \A j \in DOMAIN mapOut.per_phrase[i].items :
                    mapOut.per_phrase[i].items[j].confidence
                        >= mapCall.similarity_threshold

\* ------------------------------------------------------------------------
\* The org types of the builder and of the scorer (checked under SpecOrg)
\* ------------------------------------------------------------------------
\* The text says the org is a nonprofit.
SelfDescribesNonprofit(text) ==
    SearchWords(text, { <<"a", " ", "nonprofit">>,
                        <<"a", " ", "non", " ", "profit">>,
                        <<"a", " ", "non", "-", "profit">> })

HardBlocked ==
    /\ match.done
    /\ match.reasons # <<>>
    /\ match.reasons[1].kind = "Hard block due to red flags"

\* C28: for an org text that self-describes as a nonprofit, the org-type
\* tags of the built profile satisfy the nonprofits_only requirement, and
\* scoring the profile against a grant whose only red flag is
\* nonprofits_only is not hard-blocked.
C28_BuilderScorerAgree ==
    (build # NoResult /\ SelfDescribesNonprofit(build.org_text)) =>
        /\ OrgTags("org_type_tags") \cap settings.MATCH_HARD_BLOCKS.nonprofits_only # {}
        /\ GrantTags("red_flag_tags") = {"nonprofits_only"} => ~HardBlocked

\* ------------------------------------------------------------------------
\* Auto-generated synonyms (checked under SpecSyn)
\* ------------------------------------------------------------------------
\* The synonyms build_for_taxonomy takes for the tag.
SynonymsOf(tag) ==
    Range(FirstSynonyms(generate_synonyms_for_tag(tag, synOut.name),
                        synOut.max_per_tag))

\* The orders of the tags of the list.
Reorderings(tags) ==
    {l \in SeqsUpTo(Range(tags), Len(tags)) :
        Len(l) = Len(tags) /\ Range(l) = Range(tags)}

\* No synonym is generated for two tags of the list.
NoSharedSynonym ==
    \A t, u \in Range(synOut.tags) : t # u => SynonymsOf(t) \cap SynonymsOf(u) = {}

\* No synonym of the map normalizes to the name of another tag of the list.
NoSynonymNamesAnotherTag ==
    \A syn \in DOMAIN synOut.out_map :
        \A t \in Range(synOut.tags) \ {synOut.out_map[syn]} :
            _normalize_text(syn) # _normalize_text(t)

\* The map is the same for every order of the list.
OrderIndependent ==
    \A l \in Reorderings(synOut.tags) :
        build_for_taxonomy(l, synOut.name, synOut.max_per_tag) = synOut.out_map

\* C29: in the map written by build_for_taxonomy no synonym is generated
\* for two different tags, no synonym normalizes to the name of another
\* canonical tag, and the map does not depend on the order of the tags.
C29_Unambiguous ==
    synOut.done =>
        /\ NoSharedSynonym
        /\ NoSynonymNamesAnotherTag
        /\ OrderIndependent

\* ------------------------------------------------------------------------
\* Curated synonyms through the merge (checked under SpecShapes)
\* ------------------------------------------------------------------------
\* C30: every synonym that _load_synonyms_map resolved from the curated
\* file before merge_for_taxonomy, whatever the shape of the file, resolves
\* to the same tag when the files are loaded after the merge, with or
\* without an auto-generated file.
C30_MergePreservesCurated ==
    (merge.done /\ merge.loaded # NoResult /\ merge.loaded.merged) =>
        \A n \in DOMAIN CuratedMap :
            /\ n \in DOMAIN merge.loaded.map
            /\ merge.loaded.map[n] = CuratedMap[n]

====
